---- MODULE Spec2Model ----
\* Verification model of the Binance_Bot decision-and-lifecycle engine:
\* Position / TradeHistory (core/models.py), PositionManager, SymbolManager,
\* TrailingStopManager / ATRTrailingStop, RiskManager and the polling loops of
\* DailyScalpingBot and AggressiveRecoveryBot.
\*
\* Python objects are records; Position objects live in a heap `obj` indexed by
\* object reference, so that aliasing (the same Position held by the position
\* table, the trade ledger and a recovery list) is kept.  Optional values are
\* sets: {} is None and {v} is the value v.  Prices and money are integers
\* (ticks); a percentage comparison a/b*100 >= c is written a*100 >= c*b.
EXTENDS Integers, Sequences, FiniteSets, TLC

VARIABLES obj, pm, pm_ret, sm, now, cur_pos, rm, clock, pause_ret, bot, th, cyc, state_file

vars == <<obj, pm, pm_ret, sm, now, cur_pos, rm, clock, pause_ret, bot, th, cyc, state_file>>

\* ---------------------------------------------------------------- helpers
None == {}

Some(v) == {v}

IsNone(o) == o = {}

Val(o) == CHOOSE x \in o : TRUE

Range(s) == {s[i] : i \in 1..Len(s)}

\* list.remove(x): drops the first occurrence of x
RECURSIVE ListRemove(_, _)
ListRemove(s, x) == IF s = <<>> THEN <<>> ELSE IF Head(s) = x THEN Tail(s) ELSE <<Head(s)>> \o ListRemove(Tail(s), x)

\* number of occurrences of x in list s
RECURSIVE ListCount(_, _)
ListCount(s, x) == IF s = <<>> THEN 0 ELSE (IF Head(s) = x THEN 1 ELSE 0) + ListCount(Tail(s), x)

\* ---------------------------------------------------------------- bounds
\* instruments of the pool
Symbols == {"A", "B", "C"}

\* the pool in its configured order
symbol_pool == <<"A", "B", "C">>

\* caller-supplied position ids of the Position Manager specification
MaxIds == 4

\* global cap a Position Manager is constructed with (max_total_positions)
max_total_positions == 3

\* per-symbol cap a Position Manager is constructed with (max_per_symbol)
max_per_symbol == 2

\* ---------------------------------------------------------------- Position
\* core/models.py Position.__init__
Position(symbol, side, entry_price, quantity, stop_loss, take_profit, position_id) ==
  [ symbol |-> symbol, position_id |-> position_id, side |-> side,
    entry_price |-> entry_price, quantity |-> quantity,
    stop_loss |-> stop_loss, take_profit |-> take_profit,
    exit_price |-> None, profit_amount |-> None, exit_reason |-> None,
    trailing_stop_active |-> FALSE,
    highest_price |-> IF side = "BUY" THEN Some(entry_price) ELSE None,
    lowest_price |-> IF side = "SELL" THEN Some(entry_price) ELSE None,
    partial_tp_hit |-> FALSE ]

\* ---------------------------------------------------------------- PositionManager
\* PositionManager.__init__(max_total_positions, max_per_symbol): empty table,
\* empty index.  The index is a total function; a symbol without a key is the
\* empty list (remove_position deletes a key as soon as its list is empty,
\* add_position creates it before appending).
PMNew(maxTotal, maxPerSymbol) ==
  [ positions |-> << >>, symbol_positions |-> [s \in Symbols |-> <<>>], raised |-> FALSE,
    max_total_positions |-> maxTotal, max_per_symbol |-> maxPerSymbol ]

\* the ids in the position table (keys of self.positions)
Tracked(m) == DOMAIN m.positions

\* faulty variant of add_position: the per-symbol check is left out
add_position_no_symbol_cap(m, heap, r) ==
  IF Cardinality(Tracked(m)) >= m.max_total_positions
  THEN [pm |-> m, ret |-> FALSE]
  ELSE [pm |-> [m EXCEPT !.positions = [k \in Tracked(m) \cup {heap[r].position_id} |-> IF k = heap[r].position_id THEN r ELSE m.positions[k]],
                         !.symbol_positions[heap[r].symbol] = Append(@, heap[r].position_id)],
        ret |-> TRUE]

\* faulty variant of add_position: the id is put in the symbol's index before
\* the caps are looked at
add_position_index_first(m, heap, r) ==
  LET m1 == [m EXCEPT !.symbol_positions[heap[r].symbol] = Append(@, heap[r].position_id)] IN
  IF Cardinality(Tracked(m)) >= m.max_total_positions
  THEN [pm |-> m1, ret |-> FALSE]
  ELSE IF Len(m.symbol_positions[heap[r].symbol]) >= m.max_per_symbol
  THEN [pm |-> m1, ret |-> FALSE]
  ELSE [pm |-> [m1 EXCEPT !.positions = [k \in Tracked(m) \cup {heap[r].position_id} |-> IF k = heap[r].position_id THEN r ELSE m.positions[k]]],
        ret |-> TRUE]

\* PositionManager.add_position(position): position is the object heap[r]
add_position(m, heap, r) ==
  LET position == heap[r] IN
  IF Cardinality(Tracked(m)) >= m.max_total_positions
  THEN [pm |-> m, ret |-> FALSE]
  ELSE IF Len(m.symbol_positions[position.symbol]) >= m.max_per_symbol
  THEN [pm |-> m, ret |-> FALSE]
  ELSE [pm |-> [m EXCEPT !.positions = [k \in Tracked(m) \cup {position.position_id} |-> IF k = position.position_id THEN r ELSE m.positions[k]],
                         !.symbol_positions[position.symbol] = Append(@, position.position_id)],
        ret |-> TRUE]

\* faulty variant of remove_position: the table entry is popped and the
\* symbol's index is left as it was
remove_position_keeps_index(m, heap, position_id) ==
  IF position_id \notin Tracked(m)
  THEN [pm |-> m, ret |-> None]
  ELSE [pm |-> [m EXCEPT !.positions = [k \in Tracked(m) \ {position_id} |-> m.positions[k]]],
        ret |-> Some(m.positions[position_id])]

\* PositionManager.remove_position(position_id); ret is the removed object
\* reference or None.  list.remove raises ValueError when the id is not in the
\* symbol's list: the table entry is popped already, the index is left as it was.
remove_position(m, heap, position_id) ==
  IF position_id \notin Tracked(m)
  THEN [pm |-> m, ret |-> None]
  ELSE LET r == m.positions[position_id]
           sym == heap[r].symbol
           popped == [k \in Tracked(m) \ {position_id} |-> m.positions[k]]
       IN IF m.symbol_positions[sym] = <<>>
          THEN [pm |-> [m EXCEPT !.positions = popped], ret |-> Some(r)]
          ELSE IF position_id \notin Range(m.symbol_positions[sym])
          THEN [pm |-> [m EXCEPT !.positions = popped, !.raised = TRUE], ret |-> None]
          ELSE [pm |-> [m EXCEPT !.positions = popped,
                                 !.symbol_positions[sym] = ListRemove(@, position_id)],
                ret |-> Some(r)]

\* PositionManager.get_symbol_position_count
get_symbol_position_count(m, symbol) == Len(m.symbol_positions[symbol])

\* PositionManager.get_position_count
get_position_count(m) == Cardinality(Tracked(m))

\* PositionManager.can_open_position
can_open_position(m, symbol) ==
  ~(get_position_count(m) >= m.max_total_positions) /\ ~(get_symbol_position_count(m, symbol) >= m.max_per_symbol)

\* ---------------------------------------------------------------- trailing stops
\* Prices are integers in ticks; percentages are in tenths of a percent, so
\* price * (1 - pct/100) is price * (1000 - pct10) \div 1000 (exact for the
\* prices drawn, all multiples of 1000).

\* TrailingStopManager.trail_percent (0.3 %), in tenths of a percent
trail_percent == 3

\* TrailingStopManager.activation_profit (0.3 %), in tenths of a percent
activation_profit == 3

\* ATRTrailingStop.atr_multiplier
atr_multiplier == 2

\* profit in percent of the entry price reaches pct10 tenths of a percent
ProfitAtLeast(position, current_price, pct10) ==
  IF position.side = "BUY"
  THEN (current_price - position.entry_price) * 1000 >= pct10 * position.entry_price
  ELSE (position.entry_price - current_price) * 1000 >= pct10 * position.entry_price

\* variant: the trailing is taken up at any price
should_activate_always(position, current_price) == TRUE

\* TrailingStopManager.should_activate
should_activate(position, current_price) ==
  IF position.trailing_stop_active THEN TRUE
  ELSE ProfitAtLeast(position, current_price, activation_profit)

\* variant: the target is moved along with the stop
GuardedTrailAndTarget(position, current_price, dist) ==
  IF position.side = "BUY"
  THEN IF IsNone(position.highest_price) \/ current_price > Val(position.highest_price)
       THEN [position EXCEPT !.highest_price = Some(current_price), !.stop_loss = current_price - dist,
                             !.take_profit = @ + dist, !.trailing_stop_active = TRUE]
       ELSE position
  ELSE IF IsNone(position.lowest_price) \/ current_price < Val(position.lowest_price)
       THEN [position EXCEPT !.lowest_price = Some(current_price), !.stop_loss = current_price + dist,
                             !.take_profit = @ - dist, !.trailing_stop_active = TRUE]
       ELSE position

\* the common tail of the two guarded updates: new_stop is taken only when it
\* tightens the stored stop
GuardedTrail(position, current_price, dist) ==
  IF position.side = "BUY"
  THEN IF IsNone(position.highest_price) \/ current_price > Val(position.highest_price)
       THEN LET new_stop == current_price - dist
                p1 == [position EXCEPT !.highest_price = Some(current_price)]
            IN IF new_stop > position.stop_loss
               THEN [p1 EXCEPT !.stop_loss = new_stop, !.trailing_stop_active = TRUE]
               ELSE p1
       ELSE position
  ELSE IF IsNone(position.lowest_price) \/ current_price < Val(position.lowest_price)
       THEN LET new_stop == current_price + dist
                p1 == [position EXCEPT !.lowest_price = Some(current_price)]
            IN IF new_stop < position.stop_loss
               THEN [p1 EXCEPT !.stop_loss = new_stop, !.trailing_stop_active = TRUE]
               ELSE p1
       ELSE position

\* TrailingStopManager.update_trailing_stop(position, current_price): the
\* position after the call
TrailingStopManager_update_trailing_stop(position, current_price) ==
  IF ~should_activate(position, current_price) THEN position
  ELSE GuardedTrail(position, current_price, (current_price * trail_percent) \div 1000)

\* ATRTrailingStop.update_trailing_stop(position, current_price, atr)
ATRTrailingStop_update_trailing_stop(position, current_price, atr) ==
  IF ~ProfitAtLeast(position, current_price, activation_profit) THEN position
  ELSE GuardedTrail(position, current_price, atr * atr_multiplier)

\* Position.update_trailing_stop(current_price, trail_percent): the stop is
\* assigned without comparing it with the stored one
Position_update_trailing_stop(position, current_price, pct10) ==
  IF position.side = "BUY"
  THEN IF current_price > Val(position.highest_price)
       THEN [position EXCEPT !.highest_price = Some(current_price),
                             !.stop_loss = current_price - (current_price * pct10) \div 1000,
                             !.trailing_stop_active = TRUE]
       ELSE position
  ELSE IF current_price < Val(position.lowest_price)
       THEN [position EXCEPT !.lowest_price = Some(current_price),
                             !.stop_loss = current_price + (current_price * pct10) \div 1000,
                             !.trailing_stop_active = TRUE]
       ELSE position

\* ---------------------------------------------------------------- SymbolManager
\* number of instruments traded at once (max_active)
max_active == 2

\* rotation_interval, in clock ticks
rotation_interval == 2

\* momentum scores a symbol can be given (calculate_momentum_score's results)
MaxScore == 2

\* open-position counts a caller can report per symbol
MaxCount == 1

\* SymbolManager.__init__
SMNew(t) == [ active_symbols |-> SubSeq(symbol_pool, 1, max_active),
              momentum_scores |-> [s \in Symbols |-> 0],
              last_rotation_time |-> t ]

\* SymbolManager.update_momentum, with the score calculate_momentum_score gave
update_momentum(m, symbol, score) == [m EXCEPT !.momentum_scores[symbol] = score]

\* variant: a rotation is due at any time
should_rotate_always(m, t) == TRUE

\* SymbolManager.should_rotate
should_rotate(m, t) == (t - m.last_rotation_time) >= rotation_interval

\* position of a symbol in the pool (the insertion order of momentum_scores)
PoolIndex(s) == CHOOSE i \in 1..Len(symbol_pool) : symbol_pool[i] = s

\* sorted(momentum_scores.items(), key=score, reverse=True): a stable sort, so
\* equal scores keep the pool order
Before(m, a, b) ==
  \/ m.momentum_scores[a] > m.momentum_scores[b]
  \/ m.momentum_scores[a] = m.momentum_scores[b] /\ PoolIndex(a) < PoolIndex(b)

sorted_symbols(m) ==
  CHOOSE q \in [1..Len(symbol_pool) -> Symbols] :
    /\ \A i, j \in 1..Len(symbol_pool) : i < j => Before(m, q[i], q[j])

\* the loop "for symbol in sorted_symbols: if symbol not in new_active: append"
\* that fills new_active up to max_active
RECURSIVE FillFrom(_, _)
FillFrom(new_active, rest) ==
  IF rest = <<>> \/ Len(new_active) >= max_active THEN new_active
  ELSE IF Head(rest) \in Range(new_active) THEN FillFrom(new_active, Tail(rest))
  ELSE FillFrom(Append(new_active, Head(rest)), Tail(rest))

\* the lists list(set(...)) can yield: every order of the set's elements
Orders(S) == {q \in [1..Cardinality(S) -> S] : \A i, j \in 1..Cardinality(S) : i # j => q[i] # q[j]}

\* SymbolManager.rotate_symbols(current_positions), given the order `ord` in
\* which list(set(protected_symbols + top_symbols)) came out
rotate_symbols(m, current_positions, ord, t) ==
  LET srt == sorted_symbols(m)
      cut == SubSeq(ord, 1, IF Len(ord) < max_active THEN Len(ord) ELSE max_active)
      new_active == IF Len(cut) < max_active THEN FillFrom(cut, srt) ELSE cut
  IN [m EXCEPT !.active_symbols = new_active, !.last_rotation_time = t]

\* protected_symbols + top_symbols, as a set
RotationUnion(m, current_positions) ==
  {s \in DOMAIN current_positions : current_positions[s] > 0}
    \cup Range(SubSeq(sorted_symbols(m), 1, max_active))

\* ---------------------------------------------------------------- RiskManager
\* capital an instance starts with, in ticks
initial_capital == 1000

\* RiskManager.max_daily_loss (2.5 %), in tenths of a percent
max_daily_loss == 25

\* RiskManager.max_monthly_loss (10 %), in tenths of a percent
max_monthly_loss == 100

\* consecutive losses at which should_pause_trading pauses
pause_consecutive_losses == 5

\* drawdown (20 %) above which should_pause_trading pauses, in tenths of a percent
pause_drawdown == 200

\* closed trades a run of the model records
MaxTrades == 7

\* days the model's calendar runs through
MaxDay == 2

\* RiskManager.__init__ at date d; trade_history is kept by its length
RMNew(capital, d) ==
  [ current_capital |-> capital, peak_capital |-> capital,
    positions |-> {}, trade_history |-> 0,
    consecutive_losses |-> 0, consecutive_wins |-> 0,
    daily_start_capital |-> capital, monthly_start_capital |-> capital,
    last_reset_day |-> d.day, last_reset_month |-> d.month ]

\* RiskManager.add_position(symbol, ...): self.positions[symbol] = {...}
rm_add_position(r, symbol) == [r EXCEPT !.positions = @ \cup {symbol}]

\* RiskManager.remove_position(symbol, exit_price, realized_pnl, is_win)
rm_remove_position(r, symbol, realized_pnl, is_win) ==
  LET cap == r.current_capital + realized_pnl IN
  [r EXCEPT !.positions = @ \ {symbol},
            !.current_capital = cap,
            !.peak_capital = IF cap > @ THEN cap ELSE @,
            !.consecutive_wins = IF is_win THEN @ + 1 ELSE 0,
            !.consecutive_losses = IF is_win THEN 0 ELSE @ + 1,
            !.trade_history = @ + 1]

\* RiskManager._reset_daily_if_needed at date d
reset_daily_if_needed(r, d) ==
  IF d.day # r.last_reset_day
  THEN [r EXCEPT !.daily_start_capital = r.current_capital, !.last_reset_day = d.day]
  ELSE r

\* RiskManager._reset_monthly_if_needed at date d
reset_monthly_if_needed(r, d) ==
  IF d.month # r.last_reset_month
  THEN [r EXCEPT !.monthly_start_capital = r.current_capital, !.last_reset_month = d.month]
  ELSE r

\* variant: the daily limit never stops trading
check_daily_limit_never(r) == TRUE

\* RiskManager.check_daily_limit: can_trade, after the daily reset
\* (daily_pnl / daily_start_capital <= -max_daily_loss)
check_daily_limit(r) ==
  ~((r.current_capital - r.daily_start_capital) * 1000 <= (0 - max_daily_loss) * r.daily_start_capital)

\* RiskManager.check_monthly_limit: can_trade, after the monthly reset
check_monthly_limit(r) ==
  ~((r.current_capital - r.monthly_start_capital) * 1000 <= (0 - max_monthly_loss) * r.monthly_start_capital)

\* RiskManager.should_pause_trading at date d: the decision and the manager
\* after the resets the checks applied
should_pause_trading(r, d) ==
  LET r1 == reset_daily_if_needed(r, d) IN
  IF ~check_daily_limit(r1) THEN [rm |-> r1, pause |-> TRUE]
  ELSE LET r2 == reset_monthly_if_needed(r1, d) IN
       IF ~check_monthly_limit(r2) THEN [rm |-> r2, pause |-> TRUE]
       ELSE IF r2.consecutive_losses >= pause_consecutive_losses
       THEN [rm |-> r2, pause |-> TRUE]
       ELSE IF (r2.peak_capital - r2.current_capital) * 1000 > pause_drawdown * r2.peak_capital
       THEN [rm |-> r2, pause |-> TRUE]
       ELSE [rm |-> r2, pause |-> FALSE]

\* ---------------------------------------------------------------- TradeHistory
\* TradeHistory.__init__(starting_balance); trades holds Position references
THNew(balance) == [ trades |-> <<>>, current_balance |-> balance, daily_start_balance |-> balance ]

\* price ticks per unit of money for a position of quantity 1
TickValue == 1000

\* (pnl_percent / 100) * (quantity * entry_price), i.e. the price difference in
\* the position's favour times the quantity
pnl_amount(position, exit_price) ==
  IF position.side = "BUY"
  THEN ((exit_price - position.entry_price) * position.quantity) \div TickValue
  ELSE ((position.entry_price - exit_price) * position.quantity) \div TickValue

\* TradeHistory.add_trade(position): the ledger and the heap after the call
add_trade(h, heap, r) ==
  LET amount == pnl_amount(heap[r], Val(heap[r].exit_price)) IN
  [ th |-> [h EXCEPT !.trades = Append(@, r), !.current_balance = @ + amount],
    obj |-> [heap EXCEPT ![r].profit_amount = Some(amount)] ]

\* TradeHistory.get_daily_pnl_percent() >= bp / 100 (bp in hundredths of a percent)
DailyPnlAtLeast(h, bp) ==
  IF h.daily_start_balance = 0 THEN 0 >= bp
  ELSE (h.current_balance - h.daily_start_balance) * 10000 >= bp * h.daily_start_balance

\* TradeHistory.get_daily_pnl_percent() <= bp / 100
DailyPnlAtMost(h, bp) ==
  IF h.daily_start_balance = 0 THEN 0 <= bp
  ELSE (h.current_balance - h.daily_start_balance) * 10000 <= bp * h.daily_start_balance

\* TradeHistory.should_stop_trading_today(daily_loss_limit)
should_stop_trading_today(h, daily_loss_limit) == DailyPnlAtMost(h, 0 - daily_loss_limit)

\* ---------------------------------------------------------------- bots: configuration
\* Percentages of the bots' configuration are in hundredths of a percent.
\* The bots build their TrailingStopManager from Config.DAILY_TRAILING_* /
\* Config.AGGRESSIVE_TRAILING_* and take partial profit at
\* StrategyConstants.PARTIAL_TP_*; none of these names is defined in the
\* sources, so they are settings of the deployment.  The model runs the
\* manager on its own defaults (trail_percent, activation_profit) and with
\* partial take-profit switched off; stops are the fixed-percent ones.
\* Config.DAILY_LOSS_LIMIT (2.5 %)
DAILY_LOSS_LIMIT == 250

\* StrategyConstants.PROFIT_LOCK_THRESHOLD (7 %)
PROFIT_LOCK_THRESHOLD == 700

\* StrategyConstants.RECOVERY_MODE_TRIGGER (-2.5 %), as a loss
RECOVERY_MODE_TRIGGER == 250

\* Config.STOP_LOSS_PERCENT (0.35 %)
STOP_LOSS_PERCENT == 35

\* Config.TAKE_PROFIT_3_SIGNALS (0.85 %)
TAKE_PROFIT_3_SIGNALS == 85

\* Config.AGGRESSIVE_TIGHT_SL (0.6 %)
AGGRESSIVE_TIGHT_SL == 60

\* Config.AGGRESSIVE_MEDIUM_TP (1.8 %)
AGGRESSIVE_MEDIUM_TP == 180

\* Config.AGGRESSIVE_DAILY_TARGET (5 %)
AGGRESSIVE_DAILY_TARGET == 500

\* Config.AGGRESSIVE_QUICK_PROFIT_LOCK (3 %)
AGGRESSIVE_QUICK_PROFIT_LOCK == 300

\* Config.AGGRESSIVE_MAX_INTRADAY_DRAWDOWN (-15 %), as a loss
AGGRESSIVE_MAX_INTRADAY_DRAWDOWN == 1500

\* Config.AGGRESSIVE_MAX_DAILY_LOSS (-5 %), as a loss
AGGRESSIVE_MAX_DAILY_LOSS == 500

\* Config.AGGRESSIVE_MAX_MARTINGALE_LEVEL
AGGRESSIVE_MAX_MARTINGALE_LEVEL == 2

\* Config.AGGRESSIVE_MAX_AVERAGING_TIMES
AGGRESSIVE_MAX_AVERAGING_TIMES == 0

\* Config.AGGRESSIVE_AVERAGING_DISTANCE (0.3 %)
AGGRESSIVE_AVERAGING_DISTANCE == 30

\* ---------------------------------------------------------------- bots: state
\* DailyScalpingBot.__init__ / AggressiveRecoveryBot.__init__: the fields the
\* loops read and write.  pc is the place of the main thread in run(); scan is
\* the rest of the active symbols the entry loop of the running cycle has yet
\* to visit.  martingale_level, recovery_positions and averaging_count are
\* total functions, an absent key reading as 0 or the empty list.
BotNew(kind, balance) ==
  [ kind |-> kind, running |-> FALSE, trading_paused |-> FALSE,
    recovery_mode |-> FALSE, profit_locked |-> FALSE,
    pc |-> "init", scan |-> <<>>,
    consecutive_wins |-> 0, consecutive_losses |-> 0, last_loss_symbol |-> None,
    martingale_level |-> [s \in Symbols |-> 0],
    recovery_positions |-> [s \in Symbols |-> <<>>],
    averaging_count |-> [s \in Symbols |-> 0],
    daily_peak_balance |-> balance ]

\* save_state(): the snapshot the bot writes to its state file
save_state(st) ==
  [st EXCEPT !.file =
     IF st.bot.kind = "scalping"
     THEN Some([ recovery_mode |-> st.bot.recovery_mode, profit_locked |-> st.bot.profit_locked,
                 current_balance |-> st.th.current_balance,
                 daily_start_balance |-> st.th.daily_start_balance ])
     ELSE Some([ profit_locked |-> st.bot.profit_locked,
                 current_balance |-> st.th.current_balance,
                 daily_start_balance |-> st.th.daily_start_balance,
                 martingale_level |-> st.bot.martingale_level,
                 consecutive_wins |-> st.bot.consecutive_wins,
                 consecutive_losses |-> st.bot.consecutive_losses ])]

\* load_state() at the end of __init__: nothing when the file is absent, else
\* the flags, the balances and (aggressive bot) the recovery counters of the file
load_state(st) ==
  IF IsNone(st.file) THEN st
  ELSE LET f == Val(st.file)
           h1 == [st.th EXCEPT !.current_balance = f.current_balance,
                               !.daily_start_balance = f.daily_start_balance]
       IN IF st.bot.kind = "scalping"
          THEN [st EXCEPT !.th = h1, !.bot.recovery_mode = f.recovery_mode,
                          !.bot.profit_locked = f.profit_locked]
          ELSE [st EXCEPT !.th = h1, !.bot.profit_locked = f.profit_locked,
                          !.bot.martingale_level = f.martingale_level,
                          !.bot.consecutive_wins = f.consecutive_wins,
                          !.bot.consecutive_losses = f.consecutive_losses]

\* DailyScalpingBot.check_daily_status
scalping_check_daily_status(st) ==
  LET b0 == st.bot
      b1 == IF ~b0.profit_locked /\ DailyPnlAtLeast(st.th, PROFIT_LOCK_THRESHOLD)
            THEN [b0 EXCEPT !.profit_locked = TRUE] ELSE b0
      b2 == IF ~b1.recovery_mode /\ DailyPnlAtMost(st.th, 0 - RECOVERY_MODE_TRIGGER)
            THEN [b1 EXCEPT !.recovery_mode = TRUE] ELSE b1
      b3 == IF b2.recovery_mode /\ DailyPnlAtLeast(st.th, 0)
            THEN [b2 EXCEPT !.recovery_mode = FALSE] ELSE b2
      b4 == IF should_stop_trading_today(st.th, DAILY_LOSS_LIMIT)
            THEN [b3 EXCEPT !.running = FALSE] ELSE b3
  IN [st EXCEPT !.bot = b4]

\* DailyScalpingBot.close_position(position, exit_price, exit_reason); position
\* is the object st.obj[r].  The result of remove_position is not looked at.
scalping_close_position(st, r, exit_price, exit_reason) ==
  LET position == st.obj[r]
      profit_amount == pnl_amount(position, exit_price)
      heap1 == [st.obj EXCEPT ![r].exit_price = Some(exit_price),
                              ![r].exit_reason = Some(exit_reason),
                              ![r].profit_amount = Some(profit_amount)]
      pm1 == remove_position(st.pm, heap1, position.position_id).pm
      at == add_trade(st.th, heap1, r)
      rm1 == rm_remove_position(st.rm, position.symbol, profit_amount, profit_amount > 0)
  IN scalping_check_daily_status(save_state([st EXCEPT !.obj = at.obj, !.pm = pm1, !.th = at.th, !.rm = rm1]))

\* AggressiveRecoveryBot.check_daily_status
aggressive_check_daily_status(st) ==
  LET h == st.th
      b0 == st.bot
      b1 == IF h.current_balance > b0.daily_peak_balance
            THEN [b0 EXCEPT !.daily_peak_balance = h.current_balance] ELSE b0
  IN IF DailyPnlAtLeast(h, AGGRESSIVE_DAILY_TARGET)
     THEN [st EXCEPT !.bot = [b1 EXCEPT !.running = FALSE]]
     ELSE LET b2 == IF ~b1.profit_locked /\ DailyPnlAtLeast(h, AGGRESSIVE_QUICK_PROFIT_LOCK)
                    THEN [b1 EXCEPT !.profit_locked = TRUE] ELSE b1
          IN IF (h.current_balance - b2.daily_peak_balance) * 10000 <= (0 - AGGRESSIVE_MAX_INTRADAY_DRAWDOWN) * b2.daily_peak_balance
             THEN [st EXCEPT !.bot = [b2 EXCEPT !.running = FALSE]]
             ELSE IF DailyPnlAtMost(h, 0 - AGGRESSIVE_MAX_DAILY_LOSS)
             THEN [st EXCEPT !.bot = [b2 EXCEPT !.running = FALSE]]
             ELSE [st EXCEPT !.bot = b2]

\* AggressiveRecoveryBot.close_position(position, exit_price, exit_reason): the
\* streak counters, the martingale level and the recovery list are updated
\* before the position is removed; the risk manager is not told
aggressive_close_position(st, r, exit_price, exit_reason) ==
  LET position == st.obj[r]
      symbol == position.symbol
      profit_amount == pnl_amount(position, exit_price)
      heap1 == [st.obj EXCEPT ![r].exit_price = Some(exit_price),
                              ![r].exit_reason = Some(exit_reason),
                              ![r].profit_amount = Some(profit_amount)]
      b0 == st.bot
      b1 == IF profit_amount > 0
            THEN [b0 EXCEPT !.consecutive_wins = @ + 1, !.consecutive_losses = 0,
                            !.martingale_level[symbol] = 0,
                            !.recovery_positions[symbol] = <<>>,
                            !.averaging_count[symbol] = 0]
            ELSE [b0 EXCEPT !.consecutive_losses = @ + 1, !.consecutive_wins = 0,
                            !.last_loss_symbol = Some(symbol),
                            !.martingale_level[symbol] =
                               IF @ < AGGRESSIVE_MAX_MARTINGALE_LEVEL THEN @ + 1 ELSE @]
      pm1 == remove_position(st.pm, heap1, position.position_id).pm
      at == add_trade(st.th, heap1, r)
  IN aggressive_check_daily_status(save_state([st EXCEPT !.obj = at.obj, !.pm = pm1, !.th = at.th, !.bot = b1]))

\* close_position of the bot the state belongs to
close_position(st, r, exit_price, exit_reason) ==
  IF st.bot.kind = "scalping"
  THEN scalping_close_position(st, r, exit_price, exit_reason)
  ELSE aggressive_close_position(st, r, exit_price, exit_reason)

\* ---------------------------------------------------------------- bots: market inputs
\* price the bots enter at, in ticks (after the slippage adjustment)
BotEntry == 1000000

\* price ticks per step of a price move
MoveTick == 1000

\* get_market_data(symbol) for one position: None (data |-> FALSE) or a price,
\* given as the move from the position's entry price in the position's favour;
\* timeout tells whether the position's time stop has run out at this read
Fetch(data, move, timeout) == [data |-> data, move |-> move, timeout |-> timeout]

\* current price of a read, for the position it is made for
PriceOf(position, move) ==
  IF position.side = "BUY" THEN position.entry_price + move * MoveTick
  ELSE position.entry_price - move * MoveTick

\* ---------------------------------------------------------------- bots: exits
\* PositionManager.get_all_positions(): list(self.positions.values()), in the
\* order of insertion; the bots insert ids in increasing order
RECURSIVE SortedIds(_)
SortedIds(S) ==
  IF S = {} THEN <<>>
  ELSE LET m == CHOOSE x \in S : \A y \in S : x <= y IN <<m>> \o SortedIds(S \ {m})

get_all_positions(m) == [i \in 1..Cardinality(Tracked(m)) |-> m.positions[SortedIds(Tracked(m))[i]]]

\* the exit decision of check_exits for one position at current_price: take
\* profit, then stop loss (trailing or not), then time stop
exit_reason(kind, position, current_price, timeout) ==
  IF \/ position.side = "BUY" /\ current_price >= position.take_profit
     \/ position.side = "SELL" /\ current_price <= position.take_profit
  THEN Some("TP")
  ELSE IF \/ position.side = "BUY" /\ current_price <= position.stop_loss
          \/ position.side = "SELL" /\ current_price >= position.stop_loss
  THEN Some(IF kind = "scalping" /\ position.trailing_stop_active THEN "Trail_SL" ELSE "SL")
  ELSE IF timeout THEN Some("Time") ELSE None

\* "for position, exit_price, exit_reason in positions_to_close: close_position"
RECURSIVE CloseEach(_, _)
CloseEach(st, todo) ==
  IF todo = <<>> THEN st
  ELSE CloseEach(close_position(st, Head(todo).r, Head(todo).price, Head(todo).reason), Tail(todo))

\* the first half of the loop of check_exits: each position of the list whose
\* market data is available has its trailing stop updated at the price read
RECURSIVE TrailEach(_, _, _)
TrailEach(heap, refs, inp) ==
  IF refs = <<>> THEN heap
  ELSE LET r == Head(refs) IN
       TrailEach(IF inp[r].data
                 THEN [heap EXCEPT ![r] = TrailingStopManager_update_trailing_stop(heap[r], PriceOf(heap[r], inp[r].move))]
                 ELSE heap,
                 Tail(refs), inp)

\* check_exits(), the same in both bots: every tracked position whose market
\* data is available has its trailing stop updated and its exit conditions
\* evaluated; the positions that met one are closed afterwards.  inp gives the
\* read made for each position.
check_exits(st, inp) ==
  LET refs == get_all_positions(st.pm)
      heap1 == TrailEach(st.obj, refs, inp)
      reason(r) == exit_reason(st.bot.kind, heap1[r], PriceOf(st.obj[r], inp[r].move), inp[r].timeout)
      due == SelectSeq(refs, LAMBDA r : inp[r].data /\ ~IsNone(reason(r)))
      todo == [i \in 1..Len(due) |-> [r |-> due[i], price |-> PriceOf(st.obj[due[i]], inp[due[i]].move), reason |-> Val(reason(due[i]))]]
  IN CloseEach([st EXCEPT !.obj = heap1], todo)

\* the loop of _close_all_positions(reason) and of shutdown(): every tracked
\* position whose market data is available is closed at the price read; a
\* position without data is passed over
close_all_positions(st, inp, why) ==
  LET refs == get_all_positions(st.pm)
      due == SelectSeq(refs, LAMBDA r : inp[r].data)
      todo == [i \in 1..Len(due) |-> [r |-> due[i], price |-> PriceOf(st.obj[due[i]], inp[due[i]].move), reason |-> why]]
  IN CloseEach(st, todo)

\* DailyScalpingBot.check_intelligent_systems() at date d, given the decision
\* of the event manager: the state after it, whether trading proceeds, and
\* whether the risk manager was polled and asked for a pause
check_intelligent_systems(st, decision, inp, d) ==
  IF decision = "EMERGENCY"
  THEN [st |-> close_all_positions(st, inp, "EMERGENCY"), proceed |-> FALSE, polled |-> FALSE, pause |-> FALSE]
  ELSE IF decision = "PAUSE"
  THEN [st |-> [st EXCEPT !.bot.trading_paused = TRUE], proceed |-> FALSE, polled |-> FALSE, pause |-> FALSE]
  ELSE LET res == should_pause_trading([st.rm EXCEPT !.current_capital = st.th.current_balance], d)
       IN [st |-> [st EXCEPT !.rm = res.rm], proceed |-> ~res.pause, polled |-> TRUE, pause |-> res.pause]

\* ---------------------------------------------------------------- bots: entries
\* StrategyConstants.RECOVERY_CONFLUENCE_REQUIRED
RECOVERY_CONFLUENCE_REQUIRED == 4

\* the largest buy_signals + sell_signals calculate_signals returns (each is 0 or 1)
MaxSimpleSignals == 2

\* Config.AGGRESSIVE_ENABLE_AVERAGING
AGGRESSIVE_ENABLE_AVERAGING == FALSE

\* the Position try_entry builds for a signal on `side`: stop and target at
\* sl_bp and tp_bp hundredths of a percent from the entry price
new_position(heap, symbol, side, sl_bp, tp_bp) ==
  Position(symbol, side, BotEntry, 1,
           IF side = "BUY" THEN BotEntry - (BotEntry * sl_bp) \div 10000 ELSE BotEntry + (BotEntry * sl_bp) \div 10000,
           IF side = "BUY" THEN BotEntry + (BotEntry * tp_bp) \div 10000 ELSE BotEntry - (BotEntry * tp_bp) \div 10000,
           Len(heap) + 1)

\* DailyScalpingBot.get_adaptive_max_positions(): the configured cap until
\* five trades are closed (the model closes fewer)
get_adaptive_max_positions(h) == max_total_positions

\* DailyScalpingBot.try_entry(symbol, signals, data) with check_filters: side
\* is the side the signals chose ("none": not strong enough), filters the
\* outcome of the trading-hours, sideways, volume, sector and correlation filters
scalping_try_entry(st, symbol, side, filters) ==
  IF st.bot.trading_paused THEN st
  ELSE IF side = "none" THEN st
  ELSE IF ~filters THEN st
  ELSE LET pm1 == [st.pm EXCEPT !.max_total_positions = get_adaptive_max_positions(st.th)] IN
       IF ~can_open_position(pm1, symbol) THEN [st EXCEPT !.pm = pm1]
       ELSE IF st.bot.recovery_mode /\ MaxSimpleSignals < RECOVERY_CONFLUENCE_REQUIRED THEN [st EXCEPT !.pm = pm1]
       ELSE LET heap1 == Append(st.obj, new_position(st.obj, symbol, side, STOP_LOSS_PERCENT, TAKE_PROFIT_3_SIGNALS))
                res == add_position(pm1, heap1, Len(heap1))
            IN IF res.ret THEN save_state([st EXCEPT !.obj = heap1, !.pm = res.pm])
               ELSE [st EXCEPT !.obj = heap1]

\* AggressiveRecoveryBot.should_enter_recovery_position(symbol, current_price)
should_enter_recovery_position(st, symbol, current_price) ==
  IF ~AGGRESSIVE_ENABLE_AVERAGING THEN FALSE
  ELSE IF st.bot.recovery_positions[symbol] = <<>> THEN FALSE
  ELSE LET lst == st.bot.recovery_positions[symbol]
           last_position == st.obj[lst[Len(lst)]]
           diff == IF current_price >= last_position.entry_price
                   THEN current_price - last_position.entry_price
                   ELSE last_position.entry_price - current_price
       IN IF st.bot.averaging_count[symbol] >= AGGRESSIVE_MAX_AVERAGING_TIMES THEN FALSE
          ELSE IF diff * 10000 >= AGGRESSIVE_AVERAGING_DISTANCE * last_position.entry_price
          THEN \/ last_position.side = "BUY" /\ current_price < last_position.entry_price
               \/ last_position.side = "SELL" /\ current_price > last_position.entry_price
          ELSE FALSE

\* AggressiveRecoveryBot.try_entry(symbol, signals, data): decision is the
\* event manager's status, hours whether the trading-hours filter passes.  A
\* recovery or averaging position joins the recovery list before the position
\* manager is asked to take it.
aggressive_try_entry(st, symbol, side, decision, hours) ==
  IF st.bot.trading_paused THEN st
  ELSE IF decision \in {"EMERGENCY", "PAUSE"} THEN st
  ELSE IF side = "none" THEN st
  ELSE LET is_recovery == /\ st.bot.last_loss_symbol = Some(symbol)
                          /\ st.bot.consecutive_losses > 0
                          /\ st.bot.martingale_level[symbol] < AGGRESSIVE_MAX_MARTINGALE_LEVEL
           is_averaging == should_enter_recovery_position(st, symbol, BotEntry)
       IN IF ~is_recovery /\ ~is_averaging /\ ~hours THEN st
          ELSE IF Cardinality(Tracked(st.pm)) >= max_total_positions + (IF is_recovery \/ is_averaging THEN 3 ELSE 0) THEN st
          ELSE LET heap1 == Append(st.obj, new_position(st.obj, symbol, side, AGGRESSIVE_TIGHT_SL, AGGRESSIVE_MEDIUM_TP))
                   r == Len(heap1)
                   b1 == IF is_recovery \/ is_averaging
                         THEN [st.bot EXCEPT !.recovery_positions[symbol] = Append(@, r),
                                             !.averaging_count[symbol] = IF is_averaging THEN @ + 1 ELSE @]
                         ELSE st.bot
                   res == add_position(st.pm, heap1, r)
               IN IF res.ret THEN save_state([st EXCEPT !.obj = heap1, !.pm = res.pm, !.bot = b1])
                  ELSE [st EXCEPT !.obj = heap1, !.bot = b1]

\* ================================================================ specifications
\* Each component is checked alone under its own specification; the state of
\* the components a specification does not exercise stays at its initial value.
pmVars == <<pm, pm_ret>>

smVars == <<sm, now, cur_pos>>

rmVars == <<rm, clock, pause_ret>>

Date0 == [day |-> 1, month |-> 1]

IdlePM == pm = PMNew(max_total_positions, max_per_symbol) /\ pm_ret = [op |-> "none", ok |-> FALSE]

IdleSM == sm = SMNew(0) /\ now = 0 /\ cur_pos = [s \in Symbols |-> 0]

IdleRM == rm = RMNew(initial_capital, Date0) /\ clock = Date0 /\ pause_ret = [pause |-> FALSE, at |-> Date0]

botVars == <<bot, th, cyc, state_file>>

\* what the running cycle has done so far: polled the risk manager, was told
\* to pause by it, evaluated the exits
CycNew == [polled |-> FALSE, suspended |-> FALSE, exits_checked |-> FALSE]

IdleBot == bot = BotNew("scalping", initial_capital) /\ th = THNew(initial_capital) /\ cyc = CycNew /\ state_file = None

\* ---------------------------------------------------------------- SpecPM
\* Position objects a caller can hand to the Position Manager: every
\* combination of an id and a symbol, so that two objects can carry the same id.
PMSymbols == SubSeq(symbol_pool, 1, 2)

PMHeap == [r \in 1..(MaxIds * 2) |-> Position(PMSymbols[((r - 1) % 2) + 1], "BUY", 1000000, 1, 996000, 1008000, ((r - 1) \div 2) + 1)]

InitPM == obj = PMHeap /\ IdlePM /\ IdleSM /\ IdleRM /\ IdleBot

\* a caller adds the Position object r
PMAdd(r) ==
  LET res == add_position(pm, obj, r) IN
  /\ pm' = res.pm
  /\ pm_ret' = [op |-> "add", ok |-> res.ret]
  /\ UNCHANGED <<obj, smVars, rmVars, botVars>>

\* a caller removes the position with id k, tracked or not
PMRemove(k) ==
  LET res == remove_position(pm, obj, k) IN
  /\ pm' = res.pm
  /\ pm_ret' = [op |-> "remove", ok |-> ~IsNone(res.ret)]
  /\ UNCHANGED <<obj, smVars, rmVars, botVars>>

NextPM == (\E r \in DOMAIN PMHeap : PMAdd(r)) \/ (\E k \in 1..MaxIds : PMRemove(k))

SpecPM == InitPM /\ [][NextPM]_vars

\* ---------------------------------------------------------------- SpecPMH
\* The Position Manager with the record of its last calls: pm_ret is the list
\* of the last HistLen calls, newest first.  A call record gives the
\* operation, its result, the symbol of the position it was about and, for a
\* rejected add, the check that rejected it.
HistLen == 3

\* the check of add_position that rejects position r: "global", "symbol" or "none"
rejecting_cap(m, heap, r) ==
  IF Cardinality(Tracked(m)) >= m.max_total_positions THEN "global"
  ELSE IF Len(m.symbol_positions[heap[r].symbol]) >= m.max_per_symbol THEN "symbol"
  ELSE "none"

Remember(call) == SubSeq(<<call>> \o pm_ret, 1, IF Len(pm_ret) < HistLen THEN Len(pm_ret) + 1 ELSE HistLen)

InitPMH == obj = PMHeap /\ pm = PMNew(max_total_positions, max_per_symbol) /\ pm_ret = <<>> /\ IdleSM /\ IdleRM /\ IdleBot

\* a caller adds the Position object r
PMHAdd(r) ==
  LET res == add_position(pm, obj, r) IN
  /\ pm' = res.pm
  /\ pm_ret' = Remember([op |-> "add", ok |-> res.ret, symbol |-> obj[r].symbol, cap |-> rejecting_cap(pm, obj, r)])
  /\ UNCHANGED <<obj, smVars, rmVars, botVars>>

\* a caller removes the position with id k, tracked or not
PMHRemove(k) ==
  LET res == remove_position(pm, obj, k) IN
  /\ pm' = res.pm
  /\ pm_ret' = Remember([op |-> "remove", ok |-> ~IsNone(res.ret),
                         symbol |-> IF k \in Tracked(pm) THEN obj[pm.positions[k]].symbol ELSE "", cap |-> "none"])
  /\ UNCHANGED <<obj, smVars, rmVars, botVars>>

NextPMH == (\E r \in DOMAIN PMHeap : PMHAdd(r)) \/ (\E k \in 1..MaxIds : PMHRemove(k))

SpecPMH == InitPMH /\ [][NextPMH]_vars

\* ---------------------------------------------------------------- SpecTS
\* entry price of the position under trailing-stop updates, in ticks
TSEntry == 1000000

\* prices are TSEntry + k * 1000 for k in -PriceSteps..PriceSteps
PriceSteps == 8

TSPrices == {TSEntry + k * 1000 : k \in (0 - PriceSteps)..PriceSteps}

\* ATR values handed to the ATR trailing stop
TSAtrs == {50, 500, 2000}

\* trail percentages (tenths of a percent) a caller passes to
\* Position.update_trailing_stop: the default 0.3 % and 0.5 %
TSTrailPcts == {3, 5}

InitTS ==
  /\ \E side \in {"BUY", "SELL"} :
       obj = <<Position("A", side, TSEntry, 1,
                        IF side = "BUY" THEN TSEntry - 3500 ELSE TSEntry + 3500,
                        IF side = "BUY" THEN TSEntry + 8500 ELSE TSEntry - 8500, 1)>>
  /\ IdlePM /\ IdleSM /\ IdleRM /\ IdleBot

TSUpdate(price) ==
  /\ obj' = [obj EXCEPT ![1] = TrailingStopManager_update_trailing_stop(@, price)]
  /\ UNCHANGED <<pmVars, smVars, rmVars, botVars>>

ATRUpdate(price, atr) ==
  /\ obj' = [obj EXCEPT ![1] = ATRTrailingStop_update_trailing_stop(@, price, atr)]
  /\ UNCHANGED <<pmVars, smVars, rmVars, botVars>>

PosUpdate(price, pct10) ==
  /\ obj' = [obj EXCEPT ![1] = Position_update_trailing_stop(@, price, pct10)]
  /\ UNCHANGED <<pmVars, smVars, rmVars, botVars>>

NextTS ==
  \/ \E price \in TSPrices : TSUpdate(price)
  \/ \E price \in TSPrices, atr \in TSAtrs : ATRUpdate(price, atr)
  \/ \E price \in TSPrices, pct10 \in TSTrailPcts : PosUpdate(price, pct10)

SpecTS == InitTS /\ [][NextTS]_vars

\* ---------------------------------------------------------------- SpecRot
\* clock ticks the rotation model runs through
MaxTime == 2

InitRot == obj = << >> /\ IdlePM /\ IdleSM /\ IdleRM /\ IdleBot

RotUpdateMomentum(s, score) ==
  /\ sm' = update_momentum(sm, s, score)
  /\ UNCHANGED <<obj, pmVars, now, cur_pos, rmVars, botVars>>

\* rotate_symbols(counts); the set union is listed in any order
RotRotate(counts) ==
  \E ord \in Orders(RotationUnion(sm, counts)) :
    /\ sm' = rotate_symbols(sm, counts, ord, now)
    /\ cur_pos' = counts
    /\ UNCHANGED <<obj, pmVars, now, rmVars, botVars>>

RotTick ==
  /\ now < MaxTime
  /\ now' = now + 1
  /\ UNCHANGED <<obj, pmVars, sm, cur_pos, rmVars, botVars>>

NextRot ==
  \/ \E s \in Symbols, score \in 0..MaxScore : RotUpdateMomentum(s, score)
  \/ \E counts \in [Symbols -> 0..MaxCount] : RotRotate(counts)
  \/ RotTick

SpecRot == InitRot /\ [][NextRot]_vars

\* ---------------------------------------------------------------- SpecRisk
\* realized P&L of one closed trade, in ticks
RiskPnls == {0 - 30, 0 - 4, 4}

InitRisk == obj = << >> /\ IdlePM /\ IdleSM /\ IdleRM /\ IdleBot

\* a position is closed with realized P&L pnl (is_win = pnl > 0, as the
\* closers pass it)
RiskClose(pnl) ==
  /\ rm.trade_history < MaxTrades
  /\ rm' = rm_remove_position(rm, "A", pnl, pnl > 0)
  /\ UNCHANGED <<obj, pmVars, smVars, clock, pause_ret, botVars>>

\* the loop polls should_pause_trading()
RiskPoll ==
  LET res == should_pause_trading(rm, clock) IN
  /\ rm' = res.rm
  /\ pause_ret' = [pause |-> res.pause, at |-> clock]
  /\ UNCHANGED <<obj, pmVars, smVars, clock, botVars>>

RiskNextDay ==
  /\ clock.day < MaxDay
  /\ clock' = [clock EXCEPT !.day = @ + 1]
  /\ UNCHANGED <<obj, pmVars, smVars, rm, pause_ret, botVars>>

RiskNextMonth ==
  /\ clock.month < MaxDay
  /\ clock' = [day |-> 1, month |-> clock.month + 1]
  /\ UNCHANGED <<obj, pmVars, smVars, rm, pause_ret, botVars>>

NextRisk == (\E pnl \in RiskPnls : RiskClose(pnl)) \/ RiskPoll \/ RiskNextDay \/ RiskNextMonth

SpecRisk == InitRisk /\ [][NextRisk]_vars

\* ---------------------------------------------------------------- SpecBot
\* One bot instance, scalping or aggressive, run by run(); the operator's
\* commands arrive from the Telegram thread at any point of the loop.
\* positions a run of the model opens
MaxOpens == 2

\* price moves a read of check_exits can show, in MoveTick steps in the
\* position's favour: a gap through the stop, a gain that arms the trailing
\* stop, the target
Moves == {0 - 30, 5, 20}

\* price moves a read of a close-all loop can show
CloseMoves == {0 - 30, 20}

\* sides the signals of the model choose
BotSides == {"none", "BUY"}

\* reads check_exits can make for a position: no data, the entry price with
\* the time stop run out, or a move
ExitFetches == {Fetch(FALSE, 0, FALSE), Fetch(TRUE, 0, TRUE)} \cup {Fetch(TRUE, m, FALSE) : m \in Moves}

\* reads the close-all loops can make for a position
CloseFetches == {Fetch(FALSE, 0, FALSE)} \cup {Fetch(TRUE, m, FALSE) : m \in CloseMoves}

\* statuses EventManager.get_trading_decision() returns
Decisions == {"CLEAR", "CAUTION", "PAUSE", "EMERGENCY"}

\* momentum scores calculate_signals gives a symbol in the bot's loop
BotScores == {0}

\* the bot's objects as one record, and its assignment to the next state
St == [obj |-> obj, pm |-> pm, th |-> th, rm |-> rm, bot |-> bot, file |-> state_file]

SetSt(st) ==
  obj' = st.obj /\ pm' = st.pm /\ th' = st.th /\ rm' = st.rm /\ bot' = st.bot /\ state_file' = st.file

\* the refs of the tracked positions
TrackedRefs == Range(get_all_positions(pm))

\* the symbol managers run_cycle can be left with at time t: rotated, in any
\* order of the set union, when the rotation is due
Rotated(m, pmm, t) ==
  IF should_rotate(m, t)
  THEN LET counts == [s \in Symbols |-> get_symbol_position_count(pmm, s)]
       IN {rotate_symbols(m, counts, ord, t) : ord \in Orders(RotationUnion(m, counts))}
  ELSE {m}

\* balance a state file left by earlier sessions gives as the day's start
FileDayStart == 900

\* the state file a bot of the kind can find at construction: none, or (for
\* the scalping bot) the snapshot of earlier sessions whose day started at
\* FileDayStart
StateFiles(kind) ==
  IF kind = "scalping"
  THEN {None, save_state([ bot |-> BotNew(kind, FileDayStart),
                           th |-> [THNew(FileDayStart) EXCEPT !.current_balance = initial_capital],
                           file |-> None ]).file}
  ELSE {None}

\* the bot after __init__: managers constructed on the account balance
\* initial_capital, then load_state()
InitBot ==
  /\ obj = << >>
  /\ pm_ret = [op |-> "none", ok |-> FALSE]
  /\ cyc = CycNew
  /\ IdleSM /\ IdleRM
  /\ \E kind \in {"scalping", "aggressive"} : \E f \in StateFiles(kind) :
       LET st == load_state([ bot |-> BotNew(kind, initial_capital), th |-> THNew(initial_capital), file |-> f ])
       IN /\ bot = st.bot /\ th = st.th /\ state_file = f
          /\ pm = IF kind = "scalping" THEN PMNew(max_total_positions, max_per_symbol)
                  ELSE PMNew(max_total_positions + 5, 5)

\* run(): self.running = True, then the loop
BotStart ==
  /\ bot.pc = "init"
  /\ bot' = [bot EXCEPT !.running = TRUE, !.pc = "loop"]
  /\ UNCHANGED <<obj, pmVars, smVars, rmVars, th, cyc, state_file>>

\* "while self.running": a new cycle, or the finally clause
BotLoopTest ==
  /\ bot.pc = "loop"
  /\ bot' = [bot EXCEPT !.pc = IF bot.running THEN "cycle" ELSE "shutdown"]
  /\ cyc' = CycNew
  /\ UNCHANGED <<obj, pmVars, smVars, rmVars, th, state_file>>

\* DailyScalpingBot.run_cycle up to check_exits: the pre-checks (on False the
\* cycle sleeps and returns), then the rotation when it is due
ScalpingPreCheck(decision, inp) ==
  /\ bot.pc = "cycle" /\ bot.kind = "scalping"
  /\ LET res == check_intelligent_systems(St, decision, inp, clock) IN
       /\ cyc' = [cyc EXCEPT !.polled = res.polled, !.suspended = res.pause]
       /\ IF ~res.proceed
          THEN SetSt([res.st EXCEPT !.bot.pc = "sleep"]) /\ sm' = sm
          ELSE SetSt([res.st EXCEPT !.bot.pc = "exits"]) /\ sm' \in Rotated(sm, pm, now)
  /\ UNCHANGED <<pm_ret, now, cur_pos, clock, pause_ret>>

\* check_exits() of the cycle; the aggressive bot starts its cycle with it and
\* rotates afterwards.  The entry loop then walks the active symbols.
BotCheckExits(inp) ==
  /\ \/ bot.pc = "exits" /\ bot.kind = "scalping"
     \/ bot.pc = "cycle" /\ bot.kind = "aggressive"
  /\ LET st1 == check_exits(St, inp) IN
       \E m \in (IF bot.kind = "aggressive" THEN Rotated(sm, st1.pm, now) ELSE {sm}) :
         /\ sm' = m
         /\ SetSt([st1 EXCEPT !.bot.pc = "entries", !.bot.scan = m.active_symbols])
  /\ cyc' = [cyc EXCEPT !.exits_checked = TRUE]
  /\ UNCHANGED <<pm_ret, now, cur_pos, clock, pause_ret>>

\* one round of the entry loop: get_market_data, calculate_signals (which
\* scores the symbol's momentum in the scalping bot), try_entry
BotTryEntry(data, score, side, filters, decision) ==
  /\ bot.pc = "entries" /\ bot.scan # <<>>
  /\ side # "none" => Len(obj) < MaxOpens
  /\ LET symbol == Head(bot.scan)
         st0 == [St EXCEPT !.bot.scan = Tail(bot.scan)]
     IN IF ~data THEN SetSt(st0) /\ sm' = sm
        ELSE IF bot.kind = "scalping"
        THEN SetSt(scalping_try_entry(st0, symbol, side, filters)) /\ sm' = update_momentum(sm, symbol, score)
        ELSE SetSt(aggressive_try_entry(st0, symbol, side, decision, filters)) /\ sm' = sm
  /\ UNCHANGED <<pm_ret, now, cur_pos, clock, pause_ret, cyc>>

\* the entry loop is through: run_cycle returns
BotEndCycle ==
  /\ bot.pc = "entries" /\ bot.scan = <<>>
  /\ bot' = [bot EXCEPT !.pc = "sleep"]
  /\ UNCHANGED <<obj, pmVars, smVars, rmVars, th, cyc, state_file>>

\* time.sleep(CHECK_INTERVAL): one tick of the rotation clock
BotSleep ==
  /\ bot.pc = "sleep"
  /\ bot' = [bot EXCEPT !.pc = "loop"]
  /\ now' = IF now < MaxTime THEN now + 1 ELSE now
  /\ UNCHANGED <<obj, pmVars, sm, cur_pos, rmVars, th, cyc, state_file>>

\* KeyboardInterrupt in the loop: the finally clause runs
BotInterrupt ==
  /\ bot.pc \in {"loop", "cycle", "exits", "entries", "sleep"}
  /\ bot' = [bot EXCEPT !.pc = "shutdown", !.scan = <<>>]
  /\ UNCHANGED <<obj, pmVars, smVars, rmVars, th, cyc, state_file>>

\* shutdown(): the close-all loop, then the summary
BotShutdown(inp) ==
  /\ bot.pc = "shutdown"
  /\ SetSt(save_state([close_all_positions(St, inp, "Shutdown") EXCEPT !.bot.pc = "done"]))
  /\ UNCHANGED <<pm_ret, smVars, clock, pause_ret, cyc>>

\* stop() and the Telegram command /stop: self.running = False
BotStop ==
  /\ bot.pc # "done" /\ bot.running
  /\ bot' = [bot EXCEPT !.running = FALSE]
  /\ UNCHANGED <<obj, pmVars, smVars, rmVars, th, cyc, state_file>>

\* the Telegram command /pause
CmdPause ==
  /\ bot.pc # "done" /\ ~bot.trading_paused
  /\ bot' = [bot EXCEPT !.trading_paused = TRUE]
  /\ UNCHANGED <<obj, pmVars, smVars, rmVars, th, cyc, state_file>>

\* the Telegram command /resume
CmdResume ==
  /\ bot.pc # "done" /\ bot.trading_paused
  /\ bot' = [bot EXCEPT !.trading_paused = FALSE]
  /\ UNCHANGED <<obj, pmVars, smVars, rmVars, th, cyc, state_file>>

\* close_position is called with a position that is no longer tracked (a
\* second close of the same Position object)
BotCloseAgain(r, move) ==
  /\ bot.pc = "done"
  /\ r \in DOMAIN obj /\ r \notin TrackedRefs /\ ~IsNone(obj[r].exit_price)
  /\ Len(th.trades) = Cardinality({q \in DOMAIN obj : ~IsNone(obj[q].exit_price)})
  /\ SetSt(close_position(St, r, PriceOf(obj[r], move), "Manual"))
  /\ UNCHANGED <<pm_ret, smVars, clock, pause_ret, cyc>>

NextBot ==
  \/ BotStart
  \/ BotLoopTest
  \/ \E decision \in Decisions, inp \in [TrackedRefs -> CloseFetches] : ScalpingPreCheck(decision, inp)
  \/ \E inp \in [TrackedRefs -> ExitFetches] : BotCheckExits(inp)
  \/ \E data \in BOOLEAN, score \in BotScores, side \in BotSides, filters \in BOOLEAN, decision \in Decisions :
       BotTryEntry(data, score, side, filters, decision)
  \/ BotEndCycle
  \/ BotSleep
  \/ BotInterrupt
  \/ \E inp \in [TrackedRefs -> CloseFetches] : BotShutdown(inp)
  \/ BotStop
  \/ CmdPause
  \/ CmdResume
  \/ \E r \in DOMAIN obj, move \in CloseMoves : BotCloseAgain(r, move)

SpecBot == InitBot /\ [][NextBot]_vars

\* ---------------------------------------------------------------- SpecIso
\* Bot instances of several users in one process (BotManager.start_bot), with
\* the files of the working directory.  Here bot and th are indexed by user,
\* state_file is the directory (file name -> snapshot or None), pm_ret names
\* the last operation and the user whose instance made it, and now counts the
\* closes made.
Users == {1, 2}

\* closes the instances of a run make
MaxIsoCloses == 3

\* the file load_state / save_state of an instance open: the name does not
\* depend on the user
state_path(kind, user_id) == IF kind = "scalping" THEN "bot_state.json" ELSE "bot_state_aggressive.json"

StatePaths == {state_path(kind, u) : kind \in {"scalping", "aggressive"}, u \in Users}

\* the objects of the instance of user u, with the file it opens
IsoSt(u, heap, pmm) ==
  [ obj |-> heap, pm |-> pmm, th |-> th[u], rm |-> RMNew(initial_capital, Date0), bot |-> bot[u].b,
    file |-> state_file[state_path(bot[u].b.kind, u)] ]

InitIso ==
  /\ obj = << >> /\ pm = PMNew(max_total_positions, max_per_symbol)
  /\ IdleSM /\ IdleRM /\ cyc = CycNew
  /\ bot = [u \in Users |-> [up |-> FALSE, b |-> BotNew("scalping", initial_capital)]]
  /\ th = [u \in Users |-> THNew(initial_capital)]
  /\ state_file = [p \in StatePaths |-> None]
  /\ pm_ret = [op |-> "none", user |-> 0]

\* start_bot(user_id, config_dict, bot_type): the bot is constructed with
\* bot_class(user_id=..., config_dict=...), its __init__ ending with
\* load_state().  AggressiveRecoveryBot.__init__(self) takes no arguments, so
\* for bot_type "aggressive" the call raises TypeError, which start_bot
\* catches: no bot object, status ERROR.
IsoStart(u, kind) ==
  /\ ~bot[u].up
  /\ IF kind = "aggressive"
     THEN /\ pm_ret' = [op |-> "error", user |-> u]
          /\ UNCHANGED <<bot, th>>
     ELSE LET st == load_state([ bot |-> BotNew(kind, initial_capital), th |-> THNew(initial_capital),
                                 file |-> state_file[state_path(kind, u)] ])
          IN /\ bot' = [bot EXCEPT ![u] = [up |-> TRUE, b |-> st.bot]]
             /\ th' = [th EXCEPT ![u] = st.th]
             /\ pm_ret' = [op |-> "start", user |-> u]
  /\ UNCHANGED <<obj, pm, smVars, rmVars, cyc, state_file>>

\* the instance of user u closes a position it opened on symbol, at the price
\* the move gives: close_position, which saves the state
IsoClose(u, symbol, move) ==
  /\ bot[u].up /\ now < MaxIsoCloses
  /\ LET heap == <<new_position(<< >>, symbol, "BUY", STOP_LOSS_PERCENT, TAKE_PROFIT_3_SIGNALS)>>
         pmm == add_position(PMNew(max_total_positions, max_per_symbol), heap, 1).pm
         st == close_position(IsoSt(u, heap, pmm), 1, PriceOf(heap[1], move), "SL")
     IN /\ bot' = [bot EXCEPT ![u].b = st.bot]
        /\ th' = [th EXCEPT ![u] = st.th]
        /\ state_file' = [state_file EXCEPT ![state_path(bot[u].b.kind, u)] = st.file]
  /\ now' = now + 1
  /\ pm_ret' = [op |-> "close", user |-> u]
  /\ UNCHANGED <<obj, pm, sm, cur_pos, rmVars, cyc>>

\* stop_bot(user_id): bot_object.stop() clears running, run() leaves its loop
\* and ends with shutdown(), which saves the state
IsoStop(u) ==
  /\ bot[u].up
  /\ bot' = [bot EXCEPT ![u].up = FALSE]
  /\ state_file' = [state_file EXCEPT ![state_path(bot[u].b.kind, u)] = save_state(IsoSt(u, << >>, pm)).file]
  /\ pm_ret' = [op |-> "stop", user |-> u]
  /\ UNCHANGED <<obj, pm, smVars, rmVars, th, cyc>>

NextIso ==
  \/ \E u \in Users, kind \in {"scalping", "aggressive"} : IsoStart(u, kind)
  \/ \E u \in Users, symbol \in {"A", "B"}, move \in CloseMoves : IsoClose(u, symbol, move)
  \/ \E u \in Users : IsoStop(u)

SpecIso == InitIso /\ [][NextIso]_vars

\* ---------------------------------------------------------------- SpecFetch
\* fetch_with_retry and get_market_data against an exchange whose calls
\* succeed or raise.  An oracle lists the outcome of each call the exchange
\* would answer, in order (the side_effect list of the tests' mock client);
\* pm_ret holds the last request: its oracle and what came back.
API_RETRY_ATTEMPTS == 3

\* klines a market-data read needs
MinCandles == 30

\* outcomes the oracle holds beyond the attempts of one request
SpareCalls == 1

\* one call of the endpoint: it raises, or returns klines (here their number)
Raises == [ok |-> FALSE, klines |-> 0]

Returns(n) == [ok |-> TRUE, klines |-> n]

CallOutcomes == {Raises, Returns(0), Returns(MinCandles - 1), Returns(MinCandles)}

Oracles == [1..(API_RETRY_ATTEMPTS + SpareCalls) -> CallOutcomes]

\* the round of the for loop with index attempt, and the rounds after it
RECURSIVE fetch_attempts(_, _)
fetch_attempts(oracle, attempt) ==
  IF attempt >= API_RETRY_ATTEMPTS
  THEN [calls |-> attempt, result |-> None, raised |-> FALSE]
  ELSE LET out == oracle[attempt + 1] IN
       IF out.ok
       THEN [calls |-> attempt + 1, result |-> Some(out.klines), raised |-> FALSE]
       ELSE IF attempt < API_RETRY_ATTEMPTS - 1
       THEN fetch_attempts(oracle, attempt + 1)
       ELSE [calls |-> attempt + 1, result |-> None, raised |-> FALSE]

\* variant: no second attempt
fetch_with_retry_once(oracle) ==
  IF oracle[1].ok
  THEN [calls |-> 1, result |-> Some(oracle[1].klines), raised |-> FALSE]
  ELSE [calls |-> 1, result |-> None, raised |-> FALSE]

fetch_with_retry(oracle) == fetch_attempts(oracle, 0)

\* variant: any answer of the exchange is taken as data
get_market_data_any(oracle) ==
  IF IsNone(fetch_with_retry(oracle).result) THEN None ELSE Some(TRUE)

\* get_market_data(symbol): the klines through fetch_with_retry; None when
\* there are none or fewer than MinCandles, else the parsed data (TRUE)
get_market_data(oracle) ==
  LET klines == fetch_with_retry(oracle).result IN
    IF IsNone(klines) \/ Val(klines) = 0 \/ Val(klines) < MinCandles THEN None ELSE Some(TRUE)

InitFetch ==
  /\ obj = << >> /\ pm = PMNew(max_total_positions, max_per_symbol)
  /\ pm_ret = [op |-> "none"]
  /\ IdleSM /\ IdleRM /\ IdleBot

\* one request
FetchRequest(oracle) ==
  /\ pm_ret' = [op |-> "fetch", oracle |-> oracle, ret |-> fetch_with_retry(oracle), data |-> get_market_data(oracle)]
  /\ UNCHANGED <<obj, pm, smVars, rmVars, botVars>>

NextFetch == \E oracle \in Oracles : FetchRequest(oracle)

SpecFetch == InitFetch /\ [][NextFetch]_vars

\* ---------------------------------------------------------------- SpecNet
\* The aggressive bot's loop with the market data of the entry scan read
\* through get_market_data from an exchange that can fail.  pm_ret holds the
\* last read of the scan: its symbol, whether the exchange had the data
\* (unavailable), the tick of the cycle, and whether an earlier symbol of the
\* same scan was skipped.
OracleOf(first, rest) == [i \in 1..(API_RETRY_ATTEMPTS + SpareCalls) |-> IF i = 1 THEN first ELSE rest]

\* the exchange during one read: down, down for the first call, answering
\* with too few candles, answering in full
NetOracles ==
  { OracleOf(Raises, Raises), OracleOf(Raises, Returns(MinCandles)),
    OracleOf(Returns(MinCandles - 1), Raises), OracleOf(Returns(MinCandles), Raises) }

\* the exchange gives no usable data to a read: every attempt fails, or the
\* first answer has fewer than MinCandles klines
DataUnavailable(oracle) ==
  LET oks == {i \in 1..API_RETRY_ATTEMPTS : oracle[i].ok} IN
    \/ oks = {}
    \/ oracle[CHOOSE i \in oks : \A j \in oks : i <= j].klines < MinCandles

InitNet ==
  /\ obj = << >>
  /\ pm = PMNew(max_total_positions + 5, 5)
  /\ pm_ret = [op |-> "none"]
  /\ cyc = CycNew
  /\ IdleSM /\ IdleRM
  /\ bot = BotNew("aggressive", initial_capital) /\ th = THNew(initial_capital) /\ state_file = None

\* one round of "for symbol in active_symbols": get_market_data, "if not
\* data: continue", calculate_signals, try_entry
NetTryEntry(oracle, side, decision, hours) ==
  /\ bot.pc = "entries" /\ bot.scan # <<>>
  /\ side # "none" => Len(obj) < MaxOpens
  /\ LET symbol == Head(bot.scan)
         st0 == [St EXCEPT !.bot.scan = Tail(bot.scan)]
     IN /\ IF IsNone(get_market_data(oracle))
           THEN SetSt(st0)
           ELSE SetSt(aggressive_try_entry(st0, symbol, side, decision, hours))
        /\ pm_ret' = [ op |-> "data", symbol |-> symbol, unavailable |-> DataUnavailable(oracle), at |-> now,
                       after_skip |-> /\ bot.scan # sm.active_symbols
                                      /\ pm_ret.op = "data"
                                      /\ (pm_ret.after_skip \/ pm_ret.unavailable) ]
  /\ UNCHANGED <<smVars, clock, pause_ret, cyc>>

NextNet ==
  \/ BotStart
  \/ BotLoopTest
  \/ \E inp \in [TrackedRefs -> ExitFetches] : BotCheckExits(inp)
  \/ \E oracle \in NetOracles, side \in BotSides, decision \in Decisions, hours \in BOOLEAN :
       NetTryEntry(oracle, side, decision, hours)
  \/ BotEndCycle
  \/ BotSleep
  \/ \E inp \in [TrackedRefs -> CloseFetches] : BotShutdown(inp)

\* run() takes its next step as long as it has one
SpecNet == InitNet /\ [][NextNet]_vars /\ WF_vars(NextNet)

\* ---------------------------------------------------------------- SpecBT
\* BacktestEngine.run_backtest, run twice on the same series and the same
\* configuration, each run at its own wall-clock time.  The runs go through
\* the series in step: every BTProcess gives both the same candles.  Here bot
\* holds the engine of each run, clock the wall-clock time of each run, now
\* the number of timestamps processed and cur_pos the close of each
\* instrument's last candle.  Times are in hours, the series' timestamps being
\* 1, 2, ...; prices are in ticks; the balance is in ticks of money; a
\* quantity is in units of 1 / QtyScale.  Every series has a candle at every
\* timestamp.  The indicators of _calculate_signals are an input: a candle
\* comes with the answer of "len(historical) >= 50 and _should_enter_long".
Runs == {1, 2}

\* the order of the instruments in the data dictionary
BTSymbols == <<"A", "B", "C">>

\* timestamps of the longest series
BTLen == 2

\* configuration of the engine
max_positions == 2

initial_balance == 1000000

\* per 10000
commission_rate == 10

\* per 10000
slippage_pct == 5

\* per 100
position_size_pct == 33

Rate == 10000

QtyScale == 1000

\* "max_hold_time = 3600", in hours
max_hold_time == 1

\* closes of the candles
BTPrices == {98000, 100000, 102000}

\* wall-clock times of a run: before the series' first timestamp, after its
\* last one
WallClocks == {0, 10}

Candles == [Range(BTSymbols) -> [close : BTPrices, enter : BOOLEAN]]

SlipUp(price) == (price * (Rate + slippage_pct)) \div Rate

SlipDown(price) == (price * (Rate - slippage_pct)) \div Rate

\* BacktestEngine.__init__; positions is the dictionary in insertion order
BTNew ==
  [ balance |-> initial_balance, positions |-> <<>>, trades |-> <<>>, equity_curve |-> <<>>,
    total_commission |-> 0, ended |-> FALSE ]

BTHas(e, symbol) == \E k \in 1..Len(e.positions) : e.positions[k].symbol = symbol

BTGet(e, symbol) == e.positions[CHOOSE k \in 1..Len(e.positions) : e.positions[k].symbol = symbol]

\* _open_position(symbol, 'LONG', timestamp, candle, None): the Position is
\* created with side 'BUY', and Position.__init__ stamps entry_time with the
\* wall clock
BT_open_position(e, symbol, timestamp, close, wall) ==
  LET entry_price == SlipUp(close)
      position_value == (e.balance * position_size_pct) \div 100
      quantity == (position_value * QtyScale) \div entry_price
      commission == (position_value * commission_rate) \div Rate
      atr == close \div 100
      position == [ symbol |-> symbol, side |-> "BUY", entry_price |-> entry_price, quantity |-> quantity,
                    stop_loss |-> entry_price - 2 * atr, take_profit |-> entry_price + 3 * atr,
                    entry_time |-> wall ]
  IN [e EXCEPT !.total_commission = @ + commission, !.positions = Append(@, position)]

\* the P&L of _close_position before the commission, for a position of the
\* side closed at the fill price
BTGross(side, entry_price, price, quantity) ==
  IF side = "LONG"
  THEN ((price - entry_price) * quantity) \div QtyScale
  ELSE ((entry_price - price) * quantity) \div QtyScale

\* _close_position(symbol, timestamp, exit_price, reason)
BT_close_position(e, symbol, timestamp, exit_price, reason) ==
  IF ~BTHas(e, symbol) THEN e
  ELSE LET position == BTGet(e, symbol)
           price == IF position.side = "LONG" THEN SlipDown(exit_price) ELSE SlipUp(exit_price)
           gross == BTGross(position.side, position.entry_price, price, position.quantity)
           commission == (((price * position.quantity) \div QtyScale) * commission_rate) \div Rate
           pnl == gross - commission
           trade == [ symbol |-> symbol, side |-> position.side, entry_time |-> position.entry_time,
                      exit_time |-> timestamp, entry_price |-> position.entry_price, exit_price |-> price,
                      quantity |-> position.quantity, pnl |-> pnl, reason |-> reason,
                      duration_seconds |-> timestamp - position.entry_time ]
       IN [e EXCEPT !.total_commission = @ + commission, !.balance = @ + pnl,
                    !.trades = Append(@, trade),
                    !.positions = SelectSeq(@, LAMBDA p : p.symbol # symbol)]

\* the reason _check_exit_signals finds to close a position, or "none";
\* _should_exit answers only for side 'LONG'
BTExitReason(position, timestamp, close, should_exit) ==
  IF close <= position.stop_loss THEN "STOP_LOSS"
  ELSE IF close >= position.take_profit THEN "TAKE_PROFIT"
  ELSE IF timestamp - position.entry_time > max_hold_time THEN "TIME_EXIT"
  ELSE IF position.side = "LONG" /\ should_exit THEN "SIGNAL_EXIT"
  ELSE "none"

RECURSIVE BTCloseEach(_, _, _, _)
BTCloseEach(e, todo, timestamp, candles) ==
  IF todo = <<>> THEN e
  ELSE BTCloseEach(BT_close_position(e, Head(todo).symbol, timestamp, candles[Head(todo).symbol].close,
                                     BTExitReason(Head(todo), timestamp, candles[Head(todo).symbol].close, TRUE)),
                   Tail(todo), timestamp, candles)

\* _check_exit_signals(timestamp, current_data)
BT_check_exit_signals(e, timestamp, candles) ==
  BTCloseEach(e, SelectSeq(e.positions,
                           LAMBDA p : BTExitReason(p, timestamp, candles[p.symbol].close, TRUE) # "none"),
              timestamp, candles)

\* _check_entry_signals(timestamp, current_data, None): the symbols from the
\* k-th on
RECURSIVE BT_check_entry_signals(_, _, _, _, _)
BT_check_entry_signals(e, k, timestamp, candles, wall) ==
  IF k > Len(BTSymbols) THEN e
  ELSE LET symbol == BTSymbols[k] IN
       BT_check_entry_signals(
         IF BTHas(e, symbol) \/ ~candles[symbol].enter THEN e
         ELSE BT_open_position(e, symbol, timestamp, candles[symbol].close, wall),
         k + 1, timestamp, candles, wall)

\* _process_timestamp(timestamp, current_data, None)
BT_process_timestamp(e, timestamp, candles, wall) ==
  LET e1 == BT_check_exit_signals(e, timestamp, candles)
      e2 == IF Len(e1.positions) < max_positions
            THEN BT_check_entry_signals(e1, 1, timestamp, candles, wall)
            ELSE e1
  IN [e2 EXCEPT !.equity_curve = Append(@, [ timestamp |-> timestamp, balance |-> e2.balance,
                                             equity |-> e2.balance, open_positions |-> Len(e2.positions) ])]

\* _close_all_positions(timestamp): each at its own entry price
RECURSIVE BTCloseAll(_, _, _)
BTCloseAll(e, todo, timestamp) ==
  IF todo = <<>> THEN e
  ELSE BTCloseAll(BT_close_position(e, Head(todo).symbol, timestamp, Head(todo).entry_price, "BACKTEST_END"),
                  Tail(todo), timestamp)

BT_close_all_positions(e, timestamp) == BTCloseAll(e, e.positions, timestamp)

InitBT ==
  /\ obj = << >> /\ pm = PMNew(max_total_positions, max_per_symbol) /\ pm_ret = [op |-> "none"]
  /\ sm = SMNew(0) /\ now = 0 /\ cur_pos = [s \in Range(BTSymbols) |-> 0]
  /\ rm = RMNew(initial_capital, Date0) /\ pause_ret = [pause |-> FALSE, at |-> Date0]
  /\ th = THNew(initial_capital) /\ cyc = CycNew /\ state_file = None
  /\ bot = [r \in Runs |-> BTNew]
  /\ clock \in [Runs -> WallClocks]

\* one round of run_backtest's loop, in both runs
BTProcess(candles) ==
  /\ now < BTLen /\ \A r \in Runs : ~bot[r].ended
  /\ bot' = [r \in Runs |-> BT_process_timestamp(bot[r], now + 1, candles, clock[r])]
  /\ now' = now + 1
  /\ cur_pos' = [s \in Range(BTSymbols) |-> candles[s].close]
  /\ UNCHANGED <<obj, pm, pm_ret, sm, rm, clock, pause_ret, th, cyc, state_file>>

\* the series is through: _close_all_positions(timestamp) and the result, in
\* both runs
BTFinish ==
  /\ now >= 1 /\ \A r \in Runs : ~bot[r].ended
  /\ bot' = [r \in Runs |-> [BT_close_all_positions(bot[r], now) EXCEPT !.ended = TRUE]]
  /\ UNCHANGED <<obj, pm, pm_ret, sm, now, cur_pos, rm, clock, pause_ret, th, cyc, state_file>>

NextBT == (\E candles \in Candles : BTProcess(candles)) \/ BTFinish

SpecBT == InitBT /\ [][NextBT]_vars

\* ---------------------------------------------------------------- SpecEvt
\* EventManager.get_trading_decision against a calendar and a sentiment feed.
\* Here sm holds the event manager, now the clock in minutes and pm_ret the
\* last decision with the time it was made at.  Multipliers are in
\* hundredths.  A MarketEvent is its severity and its scheduled time.
MaxEvtTime == 30

\* events a fetch of the calendars returns at most
MaxEvents == 2

Severities == {"CRITICAL", "HIGH", "LOW"}

\* times events are scheduled at
EvtTimes == {20, 50, 100}

\* minutes the clock moves by between polls
EvtTicks == {4, 10}

\* values of the fear and greed index a fetch returns; None: the fetch failed
FngIndexes == {None, Some(10), Some(90)}

MarketEvents == [severity : Severities, scheduled_time : EvtTimes]

Calendars == UNION {[1..n -> MarketEvents] : n \in 0..MaxEvents}

\* EventManager.__init__
EMNew == [events |-> <<>>, last_update |-> None, fear_greed_index |-> 50]

\* MarketEvent.minutes_until() at time t
minutes_until(event, t) == event.scheduled_time - t

\* list.sort(key=lambda e: e.scheduled_time): stable, by insertion
RECURSIVE InsertByTime(_, _)
InsertByTime(sorted, event) ==
  IF sorted = <<>> THEN <<event>>
  ELSE IF sorted[Len(sorted)].scheduled_time <= event.scheduled_time THEN Append(sorted, event)
  ELSE Append(InsertByTime(SubSeq(sorted, 1, Len(sorted) - 1), event), sorted[Len(sorted)])

RECURSIVE SortByTime(_)
SortByTime(events) ==
  IF events = <<>> THEN <<>>
  ELSE InsertByTime(SortByTime(SubSeq(events, 1, Len(events) - 1)), events[Len(events)])

\* variant: the events are kept in the order the calendars gave them
update_events_unsorted(em, t, calendar, fng) ==
  IF IsNone(em.last_update) \/ ((t - Val(em.last_update)) * 60) % 86400 > 300
  THEN [ events |-> SelectSeq(calendar, LAMBDA e : e.scheduled_time > t),
         last_update |-> Some(t),
         fear_greed_index |-> IF IsNone(fng) THEN em.fear_greed_index ELSE Val(fng) ]
  ELSE em

\* _update_events_if_needed() at time t, the calendars answering with
\* calendar and the sentiment feed with fng
update_events_if_needed(em, t, calendar, fng) ==
  IF IsNone(em.last_update) \/ ((t - Val(em.last_update)) * 60) % 86400 > 300
  THEN [ events |-> SelectSeq(SortByTime(calendar), LAMBDA e : e.scheduled_time > t),
         last_update |-> Some(t),
         fear_greed_index |-> IF IsNone(fng) THEN em.fear_greed_index ELSE Val(fng) ]
  ELSE em

\* get_sentiment_signal(): level and position multiplier
get_sentiment_signal(em) ==
  LET index == em.fear_greed_index IN
    IF index < 20 THEN [level |-> "extreme_fear", position_multiplier |-> 150]
    ELSE IF index < 40 THEN [level |-> "fear", position_multiplier |-> 120]
    ELSE IF index < 60 THEN [level |-> "neutral", position_multiplier |-> 100]
    ELSE IF index < 80 THEN [level |-> "greed", position_multiplier |-> 80]
    ELSE [level |-> "extreme_greed", position_multiplier |-> 50]

Decision(status, multiplier) == [status |-> status, position_size_multiplier |-> multiplier]

\* the loop over the CRITICAL events: the decision of the first event that
\* falls in a bracket, or None
RECURSIVE CriticalDecision(_, _)
CriticalDecision(events, t) ==
  IF events = <<>> THEN None
  ELSE LET m == minutes_until(Head(events), t) IN
       IF 0 <= m /\ m <= 30 THEN Some(Decision("EMERGENCY", 0))
       ELSE IF 30 < m /\ m <= 60 THEN Some(Decision("PAUSE", 25))
       ELSE IF 60 < m /\ m <= 120 THEN Some(Decision("CAUTION", 50))
       ELSE CriticalDecision(Tail(events), t)

\* the decision of get_trading_decision() on the events and the sentiment of
\* the manager at time t
decide(em, t) ==
  LET critical == CriticalDecision(SelectSeq(em.events, LAMBDA e : e.severity = "CRITICAL"), t)
      high == SelectSeq(em.events, LAMBDA e : /\ e.severity = "HIGH"
                                              /\ 0 <= minutes_until(e, t) /\ minutes_until(e, t) <= 60)
      sentiment == get_sentiment_signal(em)
  IN IF ~IsNone(critical) THEN Val(critical)
     ELSE IF high # <<>> THEN Decision("CAUTION", 50)
     ELSE IF sentiment.level = "extreme_greed" THEN Decision("CAUTION", 50)
     ELSE Decision("CLEAR", sentiment.position_multiplier)

InitEvt ==
  /\ obj = << >> /\ pm = PMNew(max_total_positions, max_per_symbol)
  /\ pm_ret = [op |-> "none"]
  /\ sm = EMNew /\ now = 0 /\ cur_pos = [s \in Symbols |-> 0]
  /\ IdleRM /\ IdleBot

\* get_trading_decision()
EvtDecide(calendar, fng) ==
  /\ sm' = update_events_if_needed(sm, now, calendar, fng)
  /\ pm_ret' = [op |-> "decide", at |-> now, decision |-> decide(sm', now)]
  /\ UNCHANGED <<obj, pm, now, cur_pos, rmVars, botVars>>

\* time passes
EvtTick(d) ==
  /\ now + d <= MaxEvtTime
  /\ now' = now + d
  /\ UNCHANGED <<obj, pm, pm_ret, sm, cur_pos, rmVars, botVars>>

NextEvt ==
  \/ \E calendar \in Calendars, fng \in FngIndexes : EvtDecide(calendar, fng)
  \/ \E d \in EvtTicks : EvtTick(d)

SpecEvt == InitEvt /\ [][NextEvt]_vars

\* ---------------------------------------------------------------- SpecGate
\* The live bots with the returns of the event manager on record: pm_ret
\* holds, from the first EMERGENCY the event manager returns in a cycle to
\* the start of the next cycle, the positions that were tracked at an
\* EMERGENCY return of that cycle.
GateSeen(ret, decision, refs) ==
  IF decision = "EMERGENCY"
  THEN [op |-> "gate", open |-> (IF ret.op = "gate" THEN ret.open ELSE {}) \cup refs]
  ELSE ret

\* "while self.running": a new cycle, or the finally clause
GateLoopTest ==
  /\ bot.pc = "loop"
  /\ bot' = [bot EXCEPT !.pc = IF bot.running THEN "cycle" ELSE "shutdown"]
  /\ cyc' = CycNew
  /\ pm_ret' = [op |-> "none", ok |-> FALSE]
  /\ UNCHANGED <<obj, pm, smVars, rmVars, th, state_file>>

\* DailyScalpingBot.run_cycle up to check_exits; check_intelligent_systems
\* asks the event manager first
GatePreCheck(decision, inp) ==
  /\ bot.pc = "cycle" /\ bot.kind = "scalping"
  /\ pm_ret' = GateSeen(pm_ret, decision, TrackedRefs)
  /\ LET res == check_intelligent_systems(St, decision, inp, clock) IN
       /\ cyc' = [cyc EXCEPT !.polled = res.polled, !.suspended = res.pause]
       /\ IF ~res.proceed
          THEN SetSt([res.st EXCEPT !.bot.pc = "sleep"]) /\ sm' = sm
          ELSE SetSt([res.st EXCEPT !.bot.pc = "exits"]) /\ sm' \in Rotated(sm, pm, now)
  /\ UNCHANGED <<now, cur_pos, clock, pause_ret>>

\* one round of the entry loop; AggressiveRecoveryBot.try_entry asks the
\* event manager unless trading is paused
GateTryEntry(data, score, side, filters, decision) ==
  /\ bot.pc = "entries" /\ bot.scan # <<>>
  /\ side # "none" => Len(obj) < MaxOpens
  /\ pm_ret' = IF bot.kind = "aggressive" /\ data /\ ~bot.trading_paused
               THEN GateSeen(pm_ret, decision, TrackedRefs)
               ELSE pm_ret
  /\ LET symbol == Head(bot.scan)
         st0 == [St EXCEPT !.bot.scan = Tail(bot.scan)]
     IN IF ~data THEN SetSt(st0) /\ sm' = sm
        ELSE IF bot.kind = "scalping"
        THEN SetSt(scalping_try_entry(st0, symbol, side, filters)) /\ sm' = update_momentum(sm, symbol, score)
        ELSE SetSt(aggressive_try_entry(st0, symbol, side, decision, filters)) /\ sm' = sm
  /\ UNCHANGED <<now, cur_pos, clock, pause_ret, cyc>>

NextGate ==
  \/ BotStart
  \/ GateLoopTest
  \/ \E decision \in Decisions, inp \in [TrackedRefs -> CloseFetches] : GatePreCheck(decision, inp)
  \/ \E inp \in [TrackedRefs -> ExitFetches] : BotCheckExits(inp)
  \/ \E data \in BOOLEAN, score \in BotScores, side \in BotSides, filters \in BOOLEAN, decision \in Decisions :
       GateTryEntry(data, score, side, filters, decision)
  \/ BotEndCycle
  \/ BotSleep
  \/ BotInterrupt
  \/ \E inp \in [TrackedRefs -> CloseFetches] : BotShutdown(inp)

SpecGate == InitBot /\ [][NextGate]_vars

\* ---------------------------------------------------------------- SpecAct
\* One position as the bots open it, under the updates of the bots'
\* TrailingStopManager alone.  pm_ret keeps what the updates so far were:
\* the stop the position was opened with, whether some update came at a
\* profit of at least activation_profit (reached), whether the last update
\* was the first such (first), and whether an update came at a smaller
\* positive profit (below).

\* distances of the stop from the entry price the bots open a position with:
\* STOP_LOSS_PERCENT and AGGRESSIVE_TIGHT_SL of TSEntry
ActStops == {(TSEntry * STOP_LOSS_PERCENT) \div 10000, (TSEntry * AGGRESSIVE_TIGHT_SL) \div 10000}

InitAct ==
  /\ \E side \in {"BUY", "SELL"}, dist \in ActStops :
       LET stop == IF side = "BUY" THEN TSEntry - dist ELSE TSEntry + dist IN
         /\ obj = <<Position("A", side, TSEntry, 1, stop,
                             IF side = "BUY" THEN TSEntry + 8500 ELSE TSEntry - 8500, 1)>>
         /\ pm_ret = [op |-> "trail", stop0 |-> stop, reached |-> FALSE, first |-> FALSE, below |-> FALSE]
  /\ pm = PMNew(max_total_positions, max_per_symbol)
  /\ IdleSM /\ IdleRM /\ IdleBot

\* check_exits: trailing_stop_manager.update_trailing_stop(position, current_price)
ActUpdate(price) ==
  LET at_least == ProfitAtLeast(obj[1], price, activation_profit) IN
    /\ obj' = [obj EXCEPT ![1] = TrailingStopManager_update_trailing_stop(@, price)]
    /\ pm_ret' = [pm_ret EXCEPT !.reached = @ \/ at_least,
                                !.first = ~pm_ret.reached /\ at_least,
                                !.below = @ \/ (~at_least /\ ProfitAtLeast(obj[1], price, 1))]
    /\ UNCHANGED <<pm, smVars, rmVars, botVars>>

NextAct == \E price \in TSPrices : ActUpdate(price)

SpecAct == InitAct /\ [][NextAct]_vars

\* ---------------------------------------------------------------- SpecRotDue
\* The symbol manager as run_cycle drives it: momentum updates, and the
\* rotation step "if should_rotate(): rotate_symbols(current_positions)".
\* pm_ret records the last rotation step: the counts it was given, the time
\* and whether the rotation was due.
InitRotDue ==
  /\ obj = << >> /\ pm = PMNew(max_total_positions, max_per_symbol)
  /\ pm_ret = [op |-> "none", ok |-> FALSE]
  /\ IdleSM /\ IdleRM /\ IdleBot

\* run_cycle: the rotation step, with the open-position counts of the moment
RotStep(counts) ==
  /\ sm' \in (IF should_rotate(sm, now)
              THEN {rotate_symbols(sm, counts, ord, now) : ord \in Orders(RotationUnion(sm, counts))}
              ELSE {sm})
  /\ pm_ret' = [op |-> "rotate", counts |-> counts, at |-> now, due |-> should_rotate(sm, now)]
  /\ UNCHANGED <<obj, pm, now, cur_pos, rmVars, botVars>>

NextRotDue ==
  \/ \E s \in Symbols, score \in 0..MaxScore : RotUpdateMomentum(s, score)
  \/ \E counts \in [Symbols -> 0..MaxCount] : RotStep(counts)
  \/ RotTick

SpecRotDue == InitRotDue /\ [][NextRotDue]_vars

\* ---------------------------------------------------------------- SpecSize
\* RiskManager.calculate_position_size.  Money is in thousandths of a tick,
\* multipliers in tenths, percentages in percent, the stop loss in hundredths
\* of a percent, the confidence in halves, prices in ticks; every product is
\* rounded down to the unit.  Here rm is the manager, sm the portfolio
\* metrics and the arguments of the call, and pm_ret the last comparison.
SizeScale == 1000

\* max_risk_per_trade (0.6 %), in tenths of a percent
max_risk_per_trade == 6

\* kelly_fraction in 240ths: (win_rate * b - (1 - win_rate)) / b with
\* b = 0.006 / stop_loss_pct, capped to [0, 0.25]
kelly_fraction(win_rate, stop_loss_pct) ==
  LET k == IF stop_loss_pct > 0
           THEN (60 * win_rate - (100 - win_rate) * stop_loss_pct) \div 25
           ELSE ((170 * win_rate - (100 - win_rate) * 100) * 240) \div 17000
  IN IF k < 0 THEN 0 ELSE IF k > 60 THEN 60 ELSE k

\* _get_volatility_multiplier, given current_atr / avg_atr in tenths (10 when
\* the symbol has no ATR history)
get_volatility_multiplier(vol_ratio) ==
  IF vol_ratio < 7 THEN 13 ELSE IF vol_ratio < 13 THEN 10 ELSE IF vol_ratio < 20 THEN 7 ELSE 4

\* variant: the deepest drawdown sizes in full again
get_drawdown_multiplier_full(r) ==
  LET loss == r.peak_capital - r.current_capital IN
    IF loss * 100 < 5 * r.peak_capital THEN 10
    ELSE IF loss * 100 < 10 * r.peak_capital THEN 9
    ELSE IF loss * 100 < 15 * r.peak_capital THEN 7
    ELSE IF loss * 100 < 20 * r.peak_capital THEN 5
    ELSE 10

\* _get_drawdown_multiplier
get_drawdown_multiplier(r) ==
  LET loss == r.peak_capital - r.current_capital IN
    IF loss * 100 < 5 * r.peak_capital THEN 10
    ELSE IF loss * 100 < 10 * r.peak_capital THEN 9
    ELSE IF loss * 100 < 15 * r.peak_capital THEN 7
    ELSE IF loss * 100 < 20 * r.peak_capital THEN 5
    ELSE 3

\* _get_consecutive_loss_multiplier
get_consecutive_loss_multiplier(r) ==
  IF r.consecutive_losses = 0 THEN 10
  ELSE IF r.consecutive_losses = 1 THEN 10
  ELSE IF r.consecutive_losses = 2 THEN 9
  ELSE IF r.consecutive_losses = 3 THEN 8
  ELSE IF r.consecutive_losses = 4 THEN 6
  ELSE 4

\* calculate_position_size(symbol, entry_price, stop_loss_pct, win_rate,
\* confidence) with portfolio metrics m: the position size, in millionths
calculate_position_size(r, m, a) ==
  LET base_risk == (r.current_capital * SizeScale * max_risk_per_trade) \div 1000
      kelly == kelly_fraction(a.win_rate, a.stop_loss_pct)
      kelly_size == (r.current_capital * SizeScale * kelly) \div (240 * 4)
      v0 == IF kelly_size > base_risk THEN (base_risk * (240 + kelly)) \div 240 ELSE base_risk
      v1 == (v0 * a.confidence) \div 2
      v2 == IF m.total_exposure > 12 THEN (v1 * 6) \div 10
            ELSE IF m.total_exposure > 8 THEN (v1 * 8) \div 10 ELSE v1
      v3 == IF m.correlation_score > 60 THEN (v2 * 4) \div 10
            ELSE IF m.correlation_score > 50 THEN (v2 * 7) \div 10 ELSE v2
      v4 == (v3 * get_volatility_multiplier(a.vol_ratio)) \div 10
      v5 == (v4 * get_drawdown_multiplier(r)) \div 10
      v6 == (v5 * get_consecutive_loss_multiplier(r)) \div 10
  IN (v6 * 1000) \div a.entry_price

\* min_qty (0.001), the smallest quantity the bots' own sizing returns, in
\* millionths
min_qty == 1000

\* capital of the manager under sizing, and the peaks it has seen
SizeCapital == 900

SizePeaks == {900, 940, 950, 1000, 1050, 1060, 1125, 1200}

\* average correlations of the portfolio, in percent
SizeCorrelations == {0, 50, 51, 60, 61, 90}

\* consecutive losses the sizing is asked under
MaxLosses == 6

\* arguments and portfolio exposure of the calls
SizeArgs ==
  [entry_price : {2000, 5000}, stop_loss_pct : {35, 60}, win_rate : {40, 55},
   confidence : {1, 2}, vol_ratio : {10, 25}]

InitSize ==
  /\ obj = << >> /\ pm = PMNew(max_total_positions, max_per_symbol)
  /\ pm_ret = [op |-> "none", ok |-> FALSE]
  /\ now = 0 /\ cur_pos = [s \in Symbols |-> 0]
  /\ clock = Date0 /\ pause_ret = [pause |-> FALSE, at |-> Date0]
  /\ IdleBot
  /\ rm = [RMNew(SizeCapital, Date0) EXCEPT !.peak_capital = SizeCapital]
  /\ \E a \in SizeArgs, exposure \in {0, 10, 13} :
       sm = [args |-> a, total_exposure |-> exposure, correlation_score |-> 0]

Compared(factor, before, after) == [op |-> "size", factor |-> factor, before |-> before, after |-> after]

\* the capital has a higher peak behind it: the drawdown is larger
SizeDrawdown(peak) ==
  /\ peak > rm.peak_capital
  /\ rm' = [rm EXCEPT !.peak_capital = peak]
  /\ pm_ret' = Compared("drawdown", calculate_position_size(rm, sm, sm.args), calculate_position_size(rm', sm, sm.args))
  /\ UNCHANGED <<obj, pm, smVars, clock, pause_ret, botVars>>

\* the average correlation of the portfolio is larger
SizeCorrelation(c) ==
  /\ c > sm.correlation_score
  /\ sm' = [sm EXCEPT !.correlation_score = c]
  /\ pm_ret' = Compared("correlation", calculate_position_size(rm, sm, sm.args), calculate_position_size(rm, sm', sm.args))
  /\ UNCHANGED <<obj, pm, now, cur_pos, rmVars, botVars>>

\* one more trade was lost in a row
SizeLoss ==
  /\ rm.consecutive_losses < MaxLosses
  /\ rm' = [rm EXCEPT !.consecutive_losses = @ + 1]
  /\ pm_ret' = Compared("losses", calculate_position_size(rm, sm, sm.args), calculate_position_size(rm', sm, sm.args))
  /\ UNCHANGED <<obj, pm, smVars, clock, pause_ret, botVars>>

NextSize ==
  \/ \E peak \in SizePeaks : SizeDrawdown(peak)
  \/ \E c \in SizeCorrelations : SizeCorrelation(c)
  \/ SizeLoss

SpecSize == InitSize /\ [][NextSize]_vars

\* ---------------------------------------------------------------- SpecSector
\* The scalping bot's entries under the sector filter of check_filters, and
\* its closes.  The three symbols of the model stand for three symbols of
\* one group of RiskManager.SECTOR_GROUPS ("layer1").

\* RiskManager.MAX_POSITIONS_PER_SECTOR
MAX_POSITIONS_PER_SECTOR == 2

\* positions a run of the sector model opens
MaxSectorOpens == 4

\* RiskManager.get_symbol_sector
get_symbol_sector(symbol) == IF symbol \in Symbols THEN Some("layer1") ELSE None

\* RiskManager.check_sector_limits(new_symbol): can_add, counted over the
\* keys of the risk manager's own positions table
check_sector_limits(r, new_symbol) ==
  LET new_sector == get_symbol_sector(new_symbol) IN
    IF IsNone(new_sector) THEN TRUE
    ELSE ~(Cardinality({s \in r.positions : get_symbol_sector(s) = new_sector}) >= MAX_POSITIONS_PER_SECTOR)

InitSector ==
  /\ obj = << >>
  /\ pm = PMNew(max_total_positions, max_per_symbol) /\ pm_ret = [op |-> "none", ok |-> FALSE]
  /\ IdleSM /\ IdleRM /\ IdleBot

\* try_entry on a BUY signal for the symbol: of check_filters the sector
\* check and the position limits decide, the other filters pass
SectorEntry(symbol) ==
  /\ Len(obj) < MaxSectorOpens
  /\ SetSt(scalping_try_entry(St, symbol, "BUY", check_sector_limits(rm, symbol)))
  /\ UNCHANGED <<pm_ret, smVars, clock, pause_ret, cyc>>

\* close_position of a tracked position at the price read
SectorClose(r, move) ==
  /\ r \in TrackedRefs
  /\ SetSt(close_position(St, r, PriceOf(obj[r], move), "Manual"))
  /\ UNCHANGED <<pm_ret, smVars, clock, pause_ret, cyc>>

NextSector ==
  \/ \E symbol \in Symbols : SectorEntry(symbol)
  \/ \E r \in DOMAIN obj, move \in CloseMoves : SectorClose(r, move)

SpecSector == InitSector /\ [][NextSector]_vars

\* ---------------------------------------------------------------- SpecOwn
\* The bots of SpecBot, the scalping bot constructed on a state file that an
\* earlier session left with another balance than the account's.
\* balance the ledger of the earlier session ended with
FileBalance == 990

InitOwn ==
  /\ obj = << >>
  /\ pm_ret = [op |-> "none", ok |-> FALSE]
  /\ cyc = CycNew
  /\ IdleSM /\ IdleRM
  /\ \E kind \in {"scalping", "aggressive"} :
       LET f == IF kind = "scalping"
                THEN save_state([ bot |-> BotNew(kind, initial_capital),
                                  th |-> [THNew(initial_capital) EXCEPT !.current_balance = FileBalance],
                                  file |-> None ]).file
                ELSE None
           st == load_state([ bot |-> BotNew(kind, initial_capital), th |-> THNew(initial_capital), file |-> f ])
       IN /\ bot = st.bot /\ th = st.th /\ state_file = f
          /\ pm = IF kind = "scalping" THEN PMNew(max_total_positions, max_per_symbol)
                  ELSE PMNew(max_total_positions + 5, 5)

SpecOwn == InitOwn /\ [][NextBot]_vars

\* ---------------------------------------------------------------- SpecRegime
\* AdaptiveStrategyEngine.detect_regime on price and volume histories.
\* Prices are in ticks, returns in hundredths of a percent (rounded down).
\* Here sm holds the histories given and pm_ret the regime returned.

\* prices with at least this many samples are classified
min_regime_prices == 50

\* the last n elements of a sequence (all of it when it is shorter)
LastN(s, n) == IF Len(s) <= n THEN s ELSE SubSeq(s, Len(s) - n + 1, Len(s))

RECURSIVE SeqSum(_)
SeqSum(s) == IF s = <<>> THEN 0 ELSE Head(s) + SeqSum(Tail(s))

\* np.diff(prices) / prices[:-1]
returns_of(prices) ==
  [i \in 1..(Len(prices) - 1) |-> ((prices[i + 1] - prices[i]) * 10000) \div prices[i]]

\* np.std(returns[-20:]) compared with pct100 hundredths of a percent:
\* n * sum(r^2) - sum(r)^2 against (pct100 * n)^2
StdOver(rets, pct100) ==
  LET r == LastN(rets, 20)
      n == Len(r)
      sq == [i \in 1..n |-> r[i] * r[i]]
  IN [ above |-> n * SeqSum(sq) - SeqSum(r) * SeqSum(r) > pct100 * pct100 * n * n,
       below |-> n * SeqSum(sq) - SeqSum(r) * SeqSum(r) < pct100 * pct100 * n * n ]

\* variant: the return over the last 20 prices
month_return_20(prices) ==
  LET from == IF Len(prices) >= 20 THEN prices[Len(prices) - 19] ELSE prices[1]
  IN [gain |-> prices[Len(prices)] - from, from |-> from]

\* month_return as the pair (gain, price it is taken from): the return over
\* the last 30 prices
month_return(prices) ==
  LET from == IF Len(prices) >= 30 THEN prices[Len(prices) - 29] ELSE prices[1]
  IN [gain |-> prices[Len(prices)] - from, from |-> from]

Abs(x) == IF x < 0 THEN 0 - x ELSE x

\* detect_regime(symbol, prices, volumes, atr)
detect_regime(prices, volumes, atr) ==
  IF Len(prices) < min_regime_prices THEN "UNKNOWN"
  ELSE LET m == month_return(prices)
           vol == StdOver(returns_of(prices), 300)
           vol_low == StdOver(returns_of(prices), 150)
           recent == LastN(volumes, 10)
           \* recent_vol / avg_vol > 1.5
           surge == /\ SeqSum(volumes) > 0
                    /\ 2 * SeqSum(recent) * Len(volumes) > 3 * SeqSum(volumes) * Len(recent)
       IN IF atr * 1000 > 8 * prices[Len(prices)] \/ vol.above THEN "VOLATILE"
          ELSE IF m.gain * 100 > 30 * m.from THEN "BULL"
          ELSE IF m.gain * 100 < (0 - 30) * m.from THEN "BEAR"
          ELSE IF Abs(m.gain) * 100 < 10 * m.from /\ vol_low.below THEN "RANGING"
          ELSE IF surge /\ 10 * m.from < Abs(m.gain) * 100 /\ Abs(m.gain) * 100 < 30 * m.from THEN "BREAKOUT"
          ELSE "UNKNOWN"

\* price the histories of the model end at
RegimeLast == 101500

\* a history of len prices that ends at RegimeLast after steps of `step`,
\* every other price moved by `jitter`
PriceHistory(len, step, jitter) ==
  [i \in 1..len |-> RegimeLast - (len - i) * step + (IF i % 2 = 0 /\ i < len THEN jitter ELSE 0)]

\* a volume history of len samples, the last ten `surge` times the others
VolumeHistory(len, surge) == [i \in 1..len |-> IF i > len - 10 THEN 100 * surge ELSE 100]

RegimeLens == {30, 50, 60}

RegimeSteps == {0 - 1200, 0 - 200, 0, 200, 500, 1000}

RegimeJitters == {0, 4000}

RegimeAtrs == {500, 1000}

InitRegime ==
  /\ obj = << >> /\ pm = PMNew(max_total_positions, max_per_symbol)
  /\ pm_ret = [op |-> "none", ok |-> FALSE]
  /\ sm = [prices |-> <<>>, volumes |-> <<>>, atr |-> 0]
  /\ now = 0 /\ cur_pos = [s \in Symbols |-> 0]
  /\ IdleRM /\ IdleBot

\* detect_regime is called with the histories
RegimeDetect(len, step, jitter, surge, atr) ==
  /\ sm' = [prices |-> PriceHistory(len, step, jitter), volumes |-> VolumeHistory(len, surge), atr |-> atr]
  /\ pm_ret' = [op |-> "regime", regime |-> detect_regime(sm'.prices, sm'.volumes, atr)]
  /\ UNCHANGED <<obj, pm, now, cur_pos, rmVars, botVars>>

NextRegime ==
  \E len \in RegimeLens, step \in RegimeSteps, jitter \in RegimeJitters, surge \in {1, 3}, atr \in RegimeAtrs :
    RegimeDetect(len, step, jitter, surge, atr)

SpecRegime == InitRegime /\ [][NextRegime]_vars

\* ---------------------------------------------------------------- SpecLedger
\* A TradeHistory that closed trades are added to in any order.  Here sm is
\* the bag of the outcomes (realized P&L in money) of the trades added.

\* trades added to the ledger
MaxLedgerTrades == 5

\* realized P&L of the trades of the model
Outcomes == {0 - 10, 5, 10}

\* entry price and quantity of the trades (30000.0 and 0.01 in the tests):
\* a move of 1000 ticks is a P&L of 10
LedgerEntry == 30000

LedgerQty == 10

\* variant: the win rate over the last three trades
get_win_rate_recent(h, heap) ==
  IF h.trades = <<>> THEN 0
  ELSE LET recent == LastN(h.trades, 3) IN
       (Cardinality({i \in DOMAIN recent : pnl_amount(heap[recent[i]], Val(heap[recent[i]].exit_price)) > 0}) * 10000)
         \div Len(recent)

\* TradeHistory.get_win_rate(), in hundredths of a percent; profit_percent is
\* positive exactly when the price moved in the position's favour
get_win_rate(h, heap) ==
  IF h.trades = <<>> THEN 0
  ELSE (Cardinality({i \in DOMAIN h.trades :
          IF heap[h.trades[i]].side = "BUY"
          THEN Val(heap[h.trades[i]].exit_price) > heap[h.trades[i]].entry_price
          ELSE Val(heap[h.trades[i]].exit_price) < heap[h.trades[i]].entry_price}) * 10000)
         \div Len(h.trades)

InitLedger ==
  /\ obj = << >> /\ IdlePM
  /\ sm = [o \in Outcomes |-> 0] /\ now = 0 /\ cur_pos = [s \in Symbols |-> 0]
  /\ IdleRM /\ IdleBot

\* a position of the given side is closed with the given outcome and added
LedgerAdd(side, outcome) ==
  /\ Len(th.trades) < MaxLedgerTrades
  /\ LET r == Len(obj) + 1
         exit == IF side = "BUY" THEN LedgerEntry + outcome * 100 ELSE LedgerEntry - outcome * 100
         p == Position("A", side, LedgerEntry, LedgerQty, LedgerEntry - 1000, LedgerEntry + 1000, None)
         heap1 == Append(obj, [p EXCEPT !.exit_price = Some(exit)])
         at == add_trade(th, heap1, r)
     IN /\ obj' = at.obj
        /\ th' = at.th
  /\ sm' = [sm EXCEPT ![outcome] = @ + 1]
  /\ UNCHANGED <<pm, pm_ret, now, cur_pos, rmVars, bot, cyc, state_file>>

NextLedger == \E side \in {"BUY", "SELL"}, outcome \in Outcomes : LedgerAdd(side, outcome)

SpecLedger == InitLedger /\ [][NextLedger]_vars

\* ---------------------------------------------------------------- SpecMgr
\* managers/bot_manager.py: BotManager and the workers it starts.  Here sm is
\* the manager (instances per user, the users a restart_bot call is between
\* its stop and its start for), obj the bot objects it built, each with the
\* position of its worker, and pm_ret the result of the last call.
\* start_bot and stop_bot run under the manager's lock on the event loop; the
\* workers are threads (asyncio.to_thread) and run beside them.

BotTypes == {"scalping", "aggressive"}

\* bot objects the manager builds
MaxBots == 2

\* BotManager.__init__
MgrNew == [ instances |-> [u \in Users |-> None], restarting |-> {} ]

\* worker positions in which a thread executes the bot's run()
AliveAt == {"thread", "loop", "cycle", "sleep", "shutdown"}

\* the task of the worker is done
TaskDone(w) == w.pc \in {"dead", "cancelled"}

\* BotManager.start_bot(user_id, config_dict, bot_type).  The aggressive bot's
\* constructor takes no arguments, so building it raises and the instance is
\* left in ERROR; the scalping bot is built (running set by its constructor)
\* and its task created.
start_bot(m, heap, user, bot_type) ==
  IF ~IsNone(m.instances[user]) /\ Val(m.instances[user]).status = "running"
  THEN [sm |-> m, obj |-> heap, success |-> FALSE]
  ELSE IF bot_type # "scalping"
  THEN [ sm |-> [m EXCEPT !.instances[user] =
                   Some([bot_type |-> bot_type, status |-> "error", bot_object |-> None])],
         obj |-> heap, success |-> FALSE ]
  ELSE [ sm |-> [m EXCEPT !.instances[user] =
                   Some([bot_type |-> bot_type, status |-> "running", bot_object |-> Some(Len(heap) + 1)])],
         obj |-> Append(heap, [user |-> user, running |-> TRUE, pc |-> "scheduled", stopped |-> FALSE]),
         success |-> TRUE ]

\* BotManager.stop_bot(user_id): bot.stop() clears the running flag, the task
\* is cancelled (a task that has not started never runs; a thread already
\* started is not interrupted), the status becomes STOPPED.  `stopped`
\* records on the bot object that stop_bot returned success for it.
stop_bot(m, heap, user) ==
  IF IsNone(m.instances[user]) \/ Val(m.instances[user]).status = "stopped"
  THEN [sm |-> m, obj |-> heap, success |-> FALSE]
  ELSE LET inst == Val(m.instances[user])
           m1 == [m EXCEPT !.instances[user] = Some([inst EXCEPT !.status = "stopped"])]
       IN IF IsNone(inst.bot_object) THEN [sm |-> m1, obj |-> heap, success |-> TRUE]
          ELSE LET w == Val(inst.bot_object) IN
               [ sm |-> m1,
                 obj |-> [heap EXCEPT ![w].running = FALSE,
                                      ![w].stopped = TRUE,
                                      ![w].pc = IF @ = "scheduled" THEN "cancelled" ELSE @],
                 success |-> TRUE ]

InitMgr ==
  /\ obj = << >> /\ pm = PMNew(max_total_positions, max_per_symbol)
  /\ pm_ret = [op |-> "none", ok |-> FALSE]
  /\ sm = MgrNew /\ now = 0 /\ cur_pos = [s \in Symbols |-> 0]
  /\ IdleRM /\ IdleBot

MgrUnchanged == UNCHANGED <<pm, now, cur_pos, rmVars, botVars>>

MgrStart(user, bot_type) ==
  /\ Len(obj) < MaxBots
  /\ LET res == start_bot(sm, obj, user, bot_type) IN
       /\ sm' = res.sm /\ obj' = res.obj
       /\ pm_ret' = [op |-> "start", user |-> user, success |-> res.success]
  /\ MgrUnchanged

MgrStop(user) ==
  /\ LET res == stop_bot(sm, obj, user) IN
       /\ sm' = res.sm /\ obj' = res.obj
       /\ pm_ret' = [op |-> "stop", user |-> user, success |-> res.success]
  /\ MgrUnchanged

\* restart_bot up to its sleep: stop_bot
MgrRestartStop(user) ==
  /\ user \notin sm.restarting
  /\ LET res == stop_bot(sm, obj, user) IN
       /\ sm' = [res.sm EXCEPT !.restarting = @ \cup {user}] /\ obj' = res.obj
       /\ pm_ret' = [op |-> "stop", user |-> user, success |-> res.success]
  /\ MgrUnchanged

\* restart_bot after its sleep: start_bot with the type of the instance
MgrRestartStart(user) ==
  /\ user \in sm.restarting
  /\ Len(obj) < MaxBots
  /\ IF IsNone(sm.instances[user])
     THEN /\ sm' = [sm EXCEPT !.restarting = @ \ {user}] /\ obj' = obj
          /\ pm_ret' = [op |-> "restart", user |-> user, success |-> FALSE]
     ELSE LET res == start_bot(sm, obj, user, Val(sm.instances[user]).bot_type) IN
            /\ sm' = [res.sm EXCEPT !.restarting = @ \ {user}] /\ obj' = res.obj
            /\ pm_ret' = [op |-> "restart", user |-> user, success |-> res.success]
  /\ MgrUnchanged

\* _run_bot starts and hands run() to a thread
WorkerTaskStart(w) ==
  /\ w \in DOMAIN obj /\ obj[w].pc = "scheduled"
  /\ obj' = [obj EXCEPT ![w].pc = "thread"]
  /\ UNCHANGED <<sm, pm_ret>> /\ MgrUnchanged

\* run(): self.running = True, the start-up notification
WorkerRun(w) ==
  /\ w \in DOMAIN obj /\ obj[w].pc = "thread"
  /\ obj' = [obj EXCEPT ![w].pc = "loop", ![w].running = TRUE]
  /\ UNCHANGED <<sm, pm_ret>> /\ MgrUnchanged

\* while self.running
WorkerLoopTest(w) ==
  /\ w \in DOMAIN obj /\ obj[w].pc = "loop"
  /\ obj' = [obj EXCEPT ![w].pc = IF obj[w].running THEN "cycle" ELSE "shutdown"]
  /\ UNCHANGED <<sm, pm_ret>> /\ MgrUnchanged

\* run_cycle(); reaching the daily loss limit clears the running flag
WorkerCycle(w, limit) ==
  /\ w \in DOMAIN obj /\ obj[w].pc = "cycle"
  /\ obj' = [obj EXCEPT ![w].pc = "sleep", ![w].running = IF limit THEN FALSE ELSE @]
  /\ UNCHANGED <<sm, pm_ret>> /\ MgrUnchanged

\* time.sleep(CHECK_INTERVAL)
WorkerSleep(w) ==
  /\ w \in DOMAIN obj /\ obj[w].pc = "sleep"
  /\ obj' = [obj EXCEPT ![w].pc = "loop"]
  /\ UNCHANGED <<sm, pm_ret>> /\ MgrUnchanged

\* shutdown(), run() returns; _run_bot marks the worker's instance STOPPED
WorkerShutdown(w) ==
  /\ w \in DOMAIN obj /\ obj[w].pc = "shutdown"
  /\ obj' = [obj EXCEPT ![w].pc = "dead"]
  /\ LET u == obj[w].user IN
       sm' = IF ~IsNone(sm.instances[u]) /\ Val(sm.instances[u]).bot_object = Some(w)
                /\ Val(sm.instances[u]).status # "error"
             THEN [sm EXCEPT !.instances[u] = Some([Val(@) EXCEPT !.status = "stopped"])]
             ELSE sm
  /\ UNCHANGED pm_ret /\ MgrUnchanged

\* the steps of the worker of bot object w
WorkerStep(w) ==
  \/ WorkerTaskStart(w)
  \/ WorkerRun(w)
  \/ WorkerLoopTest(w)
  \/ \E limit \in BOOLEAN : WorkerCycle(w, limit)
  \/ WorkerSleep(w)
  \/ WorkerShutdown(w)

NextMgr ==
  \/ \E user \in Users, bot_type \in BotTypes : MgrStart(user, bot_type)
  \/ \E user \in Users : MgrStop(user)
  \/ \E user \in Users : MgrRestartStop(user)
  \/ \E user \in Users : MgrRestartStart(user)
  \/ \E w \in 1..MaxBots : WorkerStep(w)

SpecMgr == InitMgr /\ [][NextMgr]_vars

\* the same with threads that keep being scheduled
SpecMgrFair == SpecMgr /\ \A w \in 1..MaxBots : WF_vars(WorkerStep(w))

\* ---------------------------------------------------------------- SpecRecov
\* The aggressive bot's try_entry and close_position over a session long
\* enough for a symbol to fill its share of the position manager.

\* positions try_entry builds in the session
MaxRecovOpens == 7

\* symbols the signals of the session are for
RecovSymbols == {"A"}

InitRecov == InitBot /\ bot.kind = "aggressive"

\* try_entry(symbol, signals, data) in a running loop
RecovEntry(symbol, decision, hours) ==
  /\ bot.running /\ Len(obj) < MaxRecovOpens
  /\ SetSt(aggressive_try_entry(St, symbol, "BUY", decision, hours))
  /\ UNCHANGED <<pm_ret, smVars, clock, pause_ret, cyc>>

\* close_position of a tracked position at the price read
RecovClose(r, move) ==
  /\ bot.running /\ r \in TrackedRefs
  /\ SetSt(close_position(St, r, PriceOf(obj[r], move), "Exit"))
  /\ UNCHANGED <<pm_ret, smVars, clock, pause_ret, cyc>>

NextRecov ==
  \/ BotStart
  \/ \E symbol \in RecovSymbols, decision \in {"CLEAR", "PAUSE"}, hours \in BOOLEAN : RecovEntry(symbol, decision, hours)
  \/ \E r \in DOMAIN obj, move \in CloseMoves : RecovClose(r, move)

SpecRecov == InitRecov /\ [][NextRecov]_vars

\* ---------------------------------------------------------------- SpecCmd
\* The scalping bot's loop beside the Telegram command thread.  The commands
\* run on their own thread, so one can run between the test of trading_paused
\* at the top of try_entry and the rest of try_entry: the entry round is two
\* steps here.  pm_ret records whether the last command acknowledged was a
\* pause.

InitCmd == InitBot /\ bot.kind = "scalping"

\* try_entry up to "if self.trading_paused: return", after get_market_data
\* and calculate_signals
CmdEntryCheck(data, score) ==
  /\ bot.pc = "entries" /\ bot.scan # <<>>
  /\ IF ~data
     THEN bot' = [bot EXCEPT !.scan = Tail(@)] /\ sm' = sm
     ELSE /\ sm' = update_momentum(sm, Head(bot.scan), score)
          /\ bot' = IF bot.trading_paused THEN [bot EXCEPT !.scan = Tail(@)] ELSE [bot EXCEPT !.pc = "admit"]
  /\ UNCHANGED <<obj, pmVars, now, cur_pos, rmVars, th, cyc, state_file>>

\* the rest of try_entry, which found trading_paused False
CmdEntryAdmit(side, filters) ==
  /\ bot.pc = "admit"
  /\ side # "none" => Len(obj) < MaxOpens
  /\ LET st0 == [St EXCEPT !.bot.scan = Tail(bot.scan), !.bot.pc = "entries", !.bot.trading_paused = FALSE]
         st1 == scalping_try_entry(st0, Head(bot.scan), side, filters)
     IN SetSt([st1 EXCEPT !.bot.trading_paused = bot.trading_paused])
  /\ UNCHANGED <<pm_ret, smVars, clock, pause_ret, cyc>>

\* cmd_pause: the flag is set, then the acknowledgement is sent
CmdPauseAck ==
  /\ bot.pc # "done"
  /\ bot' = [bot EXCEPT !.trading_paused = TRUE]
  /\ pm_ret' = [op |-> "cmd", paused |-> TRUE]
  /\ UNCHANGED <<obj, pm, smVars, rmVars, th, cyc, state_file>>

\* cmd_resume and cmd_start: the flag is cleared
CmdResumeAck ==
  /\ bot.pc # "done"
  /\ bot' = [bot EXCEPT !.trading_paused = FALSE]
  /\ pm_ret' = [op |-> "cmd", paused |-> FALSE]
  /\ UNCHANGED <<obj, pm, smVars, rmVars, th, cyc, state_file>>

NextCmd ==
  \/ BotStart
  \/ BotLoopTest
  \/ \E decision \in Decisions, inp \in [TrackedRefs -> CloseFetches] : ScalpingPreCheck(decision, inp)
  \/ \E inp \in [TrackedRefs -> ExitFetches] : BotCheckExits(inp)
  \/ \E data \in BOOLEAN, score \in BotScores : CmdEntryCheck(data, score)
  \/ \E side \in BotSides, filters \in BOOLEAN : CmdEntryAdmit(side, filters)
  \/ BotEndCycle
  \/ BotSleep
  \/ CmdPauseAck
  \/ CmdResumeAck

SpecCmd == InitCmd /\ [][NextCmd]_vars

\* ================================================================ claims
\* tracked positions of symbol s in the position table
TableCount(s) == Cardinality({k \in Tracked(pm) : obj[pm.positions[k]].symbol = s})

\* C1: after any sequence of add and remove calls the number of tracked
\* positions never exceeds the global cap and, for every symbol, neither the
\* number of tracked positions of that symbol nor the length of its index list
\* exceeds the per-symbol cap.
C1_CapsHold ==
  /\ Cardinality(Tracked(pm)) <= max_total_positions
  /\ \A s \in Symbols : TableCount(s) <= max_per_symbol /\ Len(pm.symbol_positions[s]) <= max_per_symbol

\* C1 witness: the table is at the global cap, one symbol is at its cap, and
\* the add that was just attempted was rejected.
C1_Witness ==
  /\ Cardinality(Tracked(pm)) = max_total_positions
  /\ \E s \in Symbols : TableCount(s) = max_per_symbol
  /\ pm_ret = [op |-> "add", ok |-> FALSE]

\* C2 (as claimed): for a position whose trailing stop is active, no
\* trailing-stop update lowers the stop of a long or raises the stop of a short.
C2_StopNeverLoosens ==
  [][\A r \in DOMAIN obj :
       obj[r].trailing_stop_active =>
         /\ obj[r].side = "BUY" => obj'[r].stop_loss >= obj[r].stop_loss
         /\ obj[r].side = "SELL" => obj'[r].stop_loss <= obj[r].stop_loss]_vars

\* C3 (as claimed): a rotation keeps every active symbol for which the
\* supplied counts report an open position.
C3_RotationKeepsOpen ==
  [][\A s \in Symbols :
       (s \in Range(sm.active_symbols) /\ cur_pos'[s] > 0) => s \in Range(sm'.active_symbols)]_vars

\* C4 (as claimed): once should_pause_trading() has returned true, every later
\* call at the same date (no daily or monthly reset in between) returns true.
C4_PauseLatched ==
  [][(pause_ret.pause /\ pause_ret'.at = pause_ret.at) => pause_ret'.pause]_vars

\* C10 (as claimed): the index lists, for each symbol, exactly the ids of the
\* tracked positions of that symbol, each once.
C10_IndexConsistent ==
  \A s \in Symbols : \A k \in 1..MaxIds :
    ListCount(pm.symbol_positions[s], k) = IF k \in Tracked(pm) /\ obj[pm.positions[k]].symbol = s THEN 1 ELSE 0

\* C5 (as claimed): no new position is admitted in a step at which the risk
\* manager's should_pause_trading() would report a breach, both called as it
\* stands and called as check_intelligent_systems calls it (after the capital
\* is set to the ledger's balance).
C5_NoEntryOnBreach ==
  [][(/\ should_pause_trading(rm, clock).pause
      /\ should_pause_trading([rm EXCEPT !.current_capital = th.current_balance], clock).pause)
       => Tracked(pm') \subseteq Tracked(pm)]_vars

\* C6 (as claimed): a cycle in which the risk manager suspended the entries
\* has evaluated the exits of the open positions by the time it ends.
C6_ExitsCheckedWhileSuspended ==
  (bot.pc = "sleep" /\ cyc.suspended /\ Tracked(pm) # {}) => cyc.exits_checked

\* C7 (as claimed): once run() has started and running is false again, no
\* step admits a new position.
C7_NoEntryAfterStop ==
  [][(bot.pc # "init" /\ ~bot.running) => Tracked(pm') \subseteq Tracked(pm)]_vars

\* C8 (as claimed): when shutdown has completed, no position is tracked.
C8_NothingTrackedAfterShutdown == bot.pc = "done" => Tracked(pm) = {}

\* C9 (as claimed): closing a position that is not tracked changes nothing: an
\* untracked Position object keeps its fields, and a step that removes no
\* tracked position leaves the ledger, the balance, the streak counters and
\* the martingale levels as they were.
C9_UntrackedCloseNoOp ==
  [][/\ \A r \in DOMAIN obj : r \notin TrackedRefs => obj'[r] = obj[r]
     /\ Tracked(pm) \subseteq Tracked(pm') =>
          /\ th' = th
          /\ bot'.consecutive_wins = bot.consecutive_wins
          /\ bot'.consecutive_losses = bot.consecutive_losses
          /\ bot'.martingale_level = bot.martingale_level]_vars

\* C11: an add made while the table is at the global cap, or while the
\* position's symbol counts at least the per-symbol cap (in the table or in the
\* index), returns false and leaves the position table and the symbol index
\* as they were.
C11_RejectedAddChangesNothing ==
  [][\A r \in DOMAIN PMHeap :
       (/\ PMAdd(r)
        /\ \/ Cardinality(Tracked(pm)) >= max_total_positions
           \/ TableCount(obj[r].symbol) >= max_per_symbol
           \/ Len(pm.symbol_positions[obj[r].symbol]) >= max_per_symbol)
       => /\ ~pm_ret'.ok
          /\ pm'.positions = pm.positions
          /\ pm'.symbol_positions = pm.symbol_positions]_vars

\* C11 witness: an add was just rejected by the per-symbol cap alone, the
\* table being below the global cap.
C11_Witness ==
  /\ pm_ret = [op |-> "add", ok |-> FALSE]
  /\ Cardinality(Tracked(pm)) < max_total_positions
  /\ \E s \in Symbols : TableCount(s) = max_per_symbol

\* the last three calls were: an add rejected by a cap, the removal of a
\* tracked position that counted toward that cap, an add of a position
\* subject to that cap
RejectRemoveAdd ==
  /\ Len(pm_ret) = HistLen
  /\ pm_ret[3].op = "add" /\ ~pm_ret[3].ok
  /\ pm_ret[2].op = "remove" /\ pm_ret[2].ok
  /\ pm_ret[1].op = "add"
  /\ pm_ret[3].cap = "symbol" => (pm_ret[2].symbol = pm_ret[3].symbol /\ pm_ret[1].symbol = pm_ret[3].symbol)

\* C12 (as claimed): after an add rejected by a cap and the removal of a
\* tracked position that counted toward that cap, the following add of a
\* position subject to that cap succeeds.
C12_RemoveReenablesAdd == RejectRemoveAdd => pm_ret[1].ok

\* C12 (amended): after an add rejected by a cap and the removal of a tracked
\* position that counted toward that cap, the following add of a position
\* subject to that cap is not rejected by that cap: it succeeds, unless the
\* rejected add met the global cap and the new position's own symbol is at the
\* per-symbol cap.
C12_RemoveLiftsThatCap ==
  RejectRemoveAdd => (pm_ret[1].ok \/ (pm_ret[3].cap = "global" /\ pm_ret[1].cap = "symbol"))

\* C12 witness: an add was rejected at the global cap, a tracked position was
\* removed, and the add that followed succeeded.
C12_Witness == RejectRemoveAdd /\ pm_ret[3].cap = "global" /\ pm_ret[1].ok

\* sum of the realized P&L (profit_amount) of the trades of a ledger
RECURSIVE LedgerPnl(_, _)
LedgerPnl(trades, heap) ==
  IF trades = <<>> THEN 0 ELSE Val(heap[Head(trades)].profit_amount) + LedgerPnl(Tail(trades), heap)

\* C13 (as claimed): the ledger's running balance and the risk manager's
\* capital both equal the initial capital plus the sum of the realized P&L of
\* the closed trades the ledger records.
C13_CapitalIsInitialPlusPnl ==
  /\ th.current_balance = initial_capital + LedgerPnl(th.trades, obj)
  /\ rm.current_capital = initial_capital + LedgerPnl(th.trades, obj)

\* C14 (as claimed): no operation of the instance of one user changes a value
\* the running instance of another user holds or reads: its flags and
\* counters, its ledger, the recovery snapshot it reloads.
C14_InstancesIsolated ==
  [][\A u, v \in Users :
       (u # v /\ pm_ret'.user = u /\ bot[v].up)
       => /\ bot'[v] = bot[v]
          /\ th'[v] = th[v]
          /\ state_file'[state_path(bot[v].b.kind, v)] = state_file[state_path(bot[v].b.kind, v)]]_vars

\* C15: a request through fetch_with_retry calls the exchange at most 3 times,
\* returns the result of the first call that succeeds, and when the third
\* call has failed too returns None without raising.
C15_BoundedRetry ==
  pm_ret.op = "fetch" =>
    LET oks == {i \in 1..3 : pm_ret.oracle[i].ok} IN
      /\ pm_ret.ret.calls <= 3
      /\ ~pm_ret.ret.raised
      /\ IF oks = {}
         THEN pm_ret.ret.result = None /\ pm_ret.ret.calls = 3
         ELSE LET first == CHOOSE i \in oks : \A j \in oks : i <= j IN
              /\ pm_ret.ret.result = Some(pm_ret.oracle[first].klines)
              /\ pm_ret.ret.calls = first

\* three failed calls, a fourth call would have succeeded: None after 3 calls
C15_Witness ==
  /\ pm_ret.op = "fetch"
  /\ \A i \in 1..3 : ~pm_ret.oracle[i].ok
  /\ pm_ret.oracle[4].ok
  /\ pm_ret.ret = [calls |-> 3, result |-> None, raised |-> FALSE]

\* C16: when the exchange gives no usable market data for an instrument in a
\* cycle (every attempt failed, or too few candles), the entry scan skips that
\* instrument (nothing of the bot changes but the scan, which goes on with the
\* remaining instruments), and the loop comes round to its next turn.
C16_SkipAndGoOn ==
  /\ [][(/\ bot.pc = "entries" /\ bot.scan # <<>>
         /\ pm_ret'.op = "data" /\ pm_ret'.unavailable)
        => /\ bot' = [bot EXCEPT !.scan = Tail(bot.scan)]
           /\ obj' = obj /\ pm' = pm /\ th' = th /\ rm' = rm /\ state_file' = state_file]_vars
  /\ \A t \in 0..(MaxTime - 1) :
       (bot.pc = "entries" /\ pm_ret.op = "data" /\ pm_ret.unavailable /\ pm_ret.at = t /\ now = t)
       ~> (bot.pc = "loop" /\ now = t + 1)

\* the first instrument of the first scan was skipped, the second one has
\* been processed and a position opened on it
C16_Witness ==
  /\ pm_ret.op = "data" /\ ~pm_ret.unavailable /\ pm_ret.after_skip
  /\ pm_ret.at = 0 /\ Len(obj) = 1 /\ obj[1].symbol = pm_ret.symbol
  /\ TrackedRefs = {1}

\* the instance a restart constructs on the account balance and the state
\* file: __init__, which ends with load_state()
Restarted(kind, balance, file) ==
  load_state([bot |-> BotNew(kind, balance), th |-> THNew(balance), file |-> file])

\* TradeHistory.get_consecutive_losses(): the losing trades at the end of the
\* ledger (profit_percent and profit_amount have the same sign)
RECURSIVE get_consecutive_losses(_, _)
get_consecutive_losses(trades, heap) ==
  IF trades = <<>> THEN 0
  ELSE IF Val(heap[trades[Len(trades)]].profit_amount) < 0
  THEN 1 + get_consecutive_losses(SubSeq(trades, 1, Len(trades) - 1), heap)
  ELSE 0

\* the streak counters an instance works with: the aggressive bot's own
\* counters, the scalping bot's count over its ledger
StreakCounters(b, h, heap) ==
  IF b.kind = "aggressive"
  THEN <<b.consecutive_wins, b.consecutive_losses>>
  ELSE <<get_consecutive_losses(h.trades, heap)>>

\* C17 (as claimed): at every point of a run the snapshot on disk, reloaded by
\* a restart, gives back the balance, the streak counters and the per-symbol
\* recovery level the instance holds in memory.
C17_SnapshotRestores ==
  LET st == Restarted(bot.kind, initial_capital, state_file) IN
    /\ st.th.current_balance = th.current_balance
    /\ StreakCounters(st.bot, st.th, obj) = StreakCounters(bot, th, obj)
    /\ st.bot.martingale_level = bot.martingale_level

\* C18 (as claimed): two backtest runs on the same series and configuration
\* end with the same trade ledger (entry and exit times, durations and exit
\* reasons included) and the same equity curve, whatever the wall-clock time
\* of each run.
C18_Deterministic ==
  (\A r \in Runs : bot[r].ended) =>
    \A r1, r2 \in Runs : bot[r1].trades = bot[r2].trades /\ bot[r1].equity_curve = bot[r2].equity_curve

\* C19 (as claimed): at every timestamp of a backtest the open simulated
\* positions are at most max_positions.
C19_BacktestCap == \A r \in Runs : Len(bot[r].positions) <= max_positions

\* C20 (as claimed): when a backtest run has ended no simulated position is
\* open, and every trade closed for the end of the backtest was closed at the
\* last timestamp, at the last close of its instrument (give or take the
\* slippage of a fill).
C20_EndClosesAtLastPrice ==
  \A r \in Runs : bot[r].ended =>
    /\ bot[r].positions = <<>>
    /\ \A k \in 1..Len(bot[r].trades) :
         LET trade == bot[r].trades[k] IN
           trade.reason = "BACKTEST_END" =>
             /\ trade.exit_time = now
             /\ trade.exit_price >= SlipDown(SlipDown(cur_pos[trade.symbol]))
             /\ trade.exit_price <= SlipUp(SlipUp(cur_pos[trade.symbol]))

\* the gross P&L of the trades of a ledger, as the engine computed it
RECURSIVE BTGrossSum(_)
BTGrossSum(trades) ==
  IF trades = <<>> THEN 0
  ELSE BTGross(Head(trades).side, Head(trades).entry_price, Head(trades).exit_price, Head(trades).quantity)
       + BTGrossSum(Tail(trades))

\* C21 (as claimed): the commission of the entry fill and of the exit fill of
\* every simulated trade is taken from the balance: when a run has ended its
\* balance is the initial balance plus the gross P&L of its trades minus the
\* total commission it reports.
C21_CommissionOnEveryFill ==
  \A r \in Runs : bot[r].ended =>
    bot[r].balance = initial_balance + BTGrossSum(bot[r].trades) - bot[r].total_commission

\* the P&L before fees of a recorded trade: its pnl with the commission of
\* the exit fill added back
BTBeforeFees(trade) ==
  trade.pnl + (((trade.exit_price * trade.quantity) \div QtyScale) * commission_rate) \div Rate

\* C22 (as claimed): for every simulated long position the P&L the backtest
\* records, before fees, is (exit fill - entry fill) x quantity, which is what
\* the live ledger computes for a BUY trade of the same prices and quantity.
C22_LongPnlAsLiveLedger ==
  \A r \in Runs : \A k \in 1..Len(bot[r].trades) :
    LET trade == bot[r].trades[k] IN
      /\ BTBeforeFees(trade) = ((trade.exit_price - trade.entry_price) * trade.quantity) \div QtyScale
      /\ BTBeforeFees(trade) = pnl_amount([side |-> "BUY", entry_price |-> trade.entry_price,
                                           quantity |-> trade.quantity], trade.exit_price)

\* a CRITICAL event of the manager's list is scheduled within 30 minutes of
\* the clock
CriticalWithin30 ==
  \E k \in 1..Len(sm.events) :
    /\ sm.events[k].severity = "CRITICAL"
    /\ 0 <= minutes_until(sm.events[k], now) /\ minutes_until(sm.events[k], now) <= 30

\* C23: a decision made while some CRITICAL event is scheduled within the
\* next 30 minutes has status EMERGENCY and position-size multiplier 0,
\* whatever the other events and the sentiment index are.
C23_CriticalSoonIsEmergency ==
  (pm_ret.op = "decide" /\ pm_ret.at = now /\ CriticalWithin30)
  => pm_ret.decision = Decision("EMERGENCY", 0)

\* such a decision, made with a second event later in the list and under
\* extreme fear
C23_Witness ==
  /\ pm_ret.op = "decide" /\ pm_ret.at = now /\ CriticalWithin30
  /\ Len(sm.events) = 2 /\ sm.events[1].severity = "CRITICAL" /\ sm.events[1].scheduled_time < sm.events[2].scheduled_time
  /\ sm.fear_greed_index < 20
  /\ pm_ret.decision.status = "EMERGENCY"

\* C24: when the event manager returned EMERGENCY in a polling cycle, every
\* position that was open at that return is closed by the time the cycle of
\* the live bot is over.
C24_EmergencyClosesAll ==
  (bot.pc = "sleep" /\ pm_ret.op = "gate") => pm_ret.open \cap TrackedRefs = {}

TrailingFields == {"stop_loss", "trailing_stop_active", "highest_price", "lowest_price"}

\* C26 as stated: a trailing-stop update changes no field of the position
\* other than its stop-loss.
C26_OnlyStopLossChanges ==
  [][[obj'[1] EXCEPT !.stop_loss = obj[1].stop_loss] = obj[1]]_vars

\* C26, amended: a trailing-stop update changes no field of the position
\* other than its stop-loss, its trailing-stop flag and the highest or lowest
\* price it has seen.
C26_OnlyTrailingFieldsChange ==
  [][\A f \in (DOMAIN obj[1]) \ TrailingFields : obj'[1][f] = obj[1][f]]_vars

\* an update has moved the stop of a long position above its entry price
C26_Witness ==
  /\ obj[1].side = "BUY" /\ obj[1].trailing_stop_active
  /\ obj[1].stop_loss > obj[1].entry_price /\ Val(obj[1].highest_price) > obj[1].entry_price
  /\ obj[1].take_profit = TSEntry + 8500 /\ IsNone(obj[1].exit_price)

C28_RotationPicksTop ==
  [][(sm'.momentum_scores = sm.momentum_scores /\ now' = now)
     => LET active == Range(sm'.active_symbols)
            open == {s \in Symbols : cur_pos'[s] > 0}
        IN /\ Len(sm'.active_symbols) = max_active /\ Cardinality(active) = max_active
           /\ Cardinality(open) <= max_active => open \subseteq active
           /\ \A e \in Symbols \ active : \A i \in active \ open :
                sm'.momentum_scores[e] <= sm'.momentum_scores[i]]_vars

\* the four conditions of a pause on a risk manager whose periods are reset:
\* the loss of the day or of the month has reached its limit, five trades
\* were lost in a row, or the capital is more than 20 % under its peak
PauseConditions(r) ==
  \/ (r.daily_start_capital - r.current_capital) * 1000 >= max_daily_loss * r.daily_start_capital
  \/ (r.monthly_start_capital - r.current_capital) * 1000 >= max_monthly_loss * r.monthly_start_capital
  \/ r.consecutive_losses >= 5
  \/ (r.peak_capital - r.current_capital) * 5 > r.peak_capital

\* C29: should_pause_trading() returns true exactly when the daily loss has
\* reached the daily limit, the monthly loss the monthly limit, the
\* consecutive losses five, or the drawdown from the peak capital exceeds
\* 20 %; and it returns a decision: none of the capitals it divides by is
\* zero.  (A step that keeps the number of closed trades and the date is a
\* poll.)
C29_PauseExactlyOnLimits ==
  [][(rm'.trade_history = rm.trade_history /\ clock' = clock)
     => /\ pause_ret'.pause \in BOOLEAN
        /\ pause_ret'.pause <=> PauseConditions(rm')
        /\ rm'.daily_start_capital > 0 /\ rm'.monthly_start_capital > 0 /\ rm'.peak_capital > 0]_vars

\* a poll on the second day answered with a pause while the loss of that day
\* is under its limit and the loss of the month has reached its limit
C29_Witness ==
  /\ pause_ret.pause /\ pause_ret.at = clock /\ clock.day = 2
  /\ rm.last_reset_day = 2 /\ rm.trade_history >= 5
  /\ (rm.daily_start_capital - rm.current_capital) * 1000 < max_daily_loss * rm.daily_start_capital
  /\ (rm.monthly_start_capital - rm.current_capital) * 1000 >= max_monthly_loss * rm.monthly_start_capital
  /\ PauseConditions(rm)

\* C30: with every other input of the sizing equal, a larger drawdown, a
\* larger average correlation of the portfolio or a larger count of
\* consecutive losses never gives a larger position size.
C30_SizingMonotone ==
  pm_ret.op = "size" => pm_ret.after <= pm_ret.before

\* a larger drawdown has cut a position size that losses in a row and the
\* correlation of the portfolio had cut before
C30_Witness ==
  /\ pm_ret.op = "size" /\ pm_ret.factor = "drawdown"
  /\ 0 < pm_ret.after /\ pm_ret.after < pm_ret.before
  /\ rm.consecutive_losses >= 2 /\ sm.correlation_score > 50

\* C31: with the sector limit in force, no sector group ever holds more than
\* two open positions of a live instance.
C31_SectorCap ==
  \A sector \in {"layer1"} :
    Cardinality({r \in TrackedRefs : get_symbol_sector(obj[r].symbol) = Some(sector)}) <= 2

\* C32: the quantity the risk manager's position sizing returns is never
\* below the minimum lot size.
C32_SizeAtLeastMinLot ==
  pm_ret.op = "size" => (pm_ret.before >= min_qty /\ pm_ret.after >= min_qty)

\* C33: the capital of the risk manager changes only through the risk
\* manager's own operations: the one that changes it, remove_position, also
\* appends the closed trade to the manager's history.
C33_CapitalOnlyByRiskManager ==
  [][rm'.current_capital # rm.current_capital => rm'.trade_history > rm.trade_history]_vars

\* the last 30 prices given rose by 40 % or more, the volatility of the
\* returns is below 3 % and the ATR below 0.8 % of the last price
BullScenario ==
  /\ pm_ret.op = "regime" /\ Len(sm.prices) >= 30
  /\ (sm.prices[Len(sm.prices)] - sm.prices[Len(sm.prices) - 29]) * 10 >= 4 * sm.prices[Len(sm.prices) - 29]
  /\ StdOver(returns_of(sm.prices), 300).below
  /\ sm.atr * 1000 < 8 * sm.prices[Len(sm.prices)]

\* C34 as stated: 30 price samples with +40 % cumulative return, volatility
\* below 3 % and ATR below 0.8 % of the price are classified BULL.
C34_ThirtySamplesBull ==
  (BullScenario /\ Len(sm.prices) = 30) => pm_ret.regime = "BULL"

\* C34, amended: a history of at least 50 prices whose last 30 samples show
\* +40 % cumulative return, with volatility below 3 % and ATR below 0.8 % of
\* the price, is classified BULL.
C34_FiftySamplesBull ==
  (BullScenario /\ Len(sm.prices) >= 50) => pm_ret.regime = "BULL"

\* a history of 50 prices in the scenario was classified
C34_Witness ==
  BullScenario /\ Len(sm.prices) = 50 /\ pm_ret.regime = "BULL" /\ sm.prices[21] = 72500

\* trades in a bag of outcomes, its winning trades and its net P&L
BagSize(b) == b[0 - 10] + b[5] + b[10]

BagWins(b) == b[5] + b[10]

BagPnl(b) == 5 * b[5] + 10 * b[10] - 10 * b[0 - 10]

\* C35: the win rate and the net P&L of a ledger are those of the multiset of
\* the outcomes of its trades, whatever the order they were added in; with
\* three wins of 10 and two losses of 10 they are 60 % and 10.
C35_LedgerOrderIndependent ==
  /\ Len(th.trades) = BagSize(sm)
  /\ BagSize(sm) > 0 => get_win_rate(th, obj) = (BagWins(sm) * 10000) \div BagSize(sm)
  /\ th.current_balance - th.daily_start_balance = BagPnl(sm)
  /\ (sm[10] = 3 /\ sm[0 - 10] = 2 /\ sm[5] = 0) =>
       (get_win_rate(th, obj) = 6000 /\ th.current_balance - th.daily_start_balance = 10)

\* three wins of 10 and two losses of 10 were added, a loss first and a win last
C35_Witness ==
  /\ sm[10] = 3 /\ sm[0 - 10] = 2 /\ Len(th.trades) = 5
  /\ Val(obj[th.trades[1]].profit_amount) = 0 - 10
  /\ Val(obj[th.trades[5]].profit_amount) = 10
  /\ get_win_rate(th, obj) = 6000

\* C36: for every user at most one bot worker is alive at any time.
C36_OneWorkerPerUser ==
  \A u \in Users : Cardinality({w \in DOMAIN obj : obj[w].user = u /\ obj[w].pc \in AliveAt}) <= 1

\* C37: after stop_bot returned success for a user's bot, the bot's worker
\* eventually leaves its loop and terminates.
C37_StoppedWorkerTerminates ==
  \A w \in 1..MaxBots :
    [](w \in DOMAIN obj /\ obj[w].stopped => <>(w \in DOMAIN obj /\ TaskDone(obj[w])))

\* C38: after an Event Gate PAUSE suspended entries, a cycle the gate lets
\* through again (status CLEAR, or CAUTION, which the pre-check treats alike)
\* admits entries without an operator command: in the entry phase of such a
\* cycle of the scalping bot, a signal that passes the filters on a symbol the
\* position manager has room for is admitted.  (No operator command is issued
\* under SpecGate.)
C38_ClearResumesEntries ==
  (/\ bot.kind = "scalping" /\ bot.pc = "entries" /\ bot.scan # <<>>
   /\ ~bot.recovery_mode
   /\ can_open_position(pm, Head(bot.scan)))
  => Cardinality(Tracked(scalping_try_entry(St, Head(bot.scan), "BUY", TRUE).pm)) > Cardinality(Tracked(pm))

\* C39: in the aggressive bot a position is in a symbol's recovery list only
\* if the Position Manager admitted it (it is tracked, or it was and has been
\* closed), and a symbol's averaging count is at most the number of positions
\* on its list.
C39_RecoveryListAdmitted ==
  bot.kind = "aggressive" =>
    \A s \in Symbols :
      /\ \A i \in DOMAIN bot.recovery_positions[s] :
           \/ bot.recovery_positions[s][i] \in TrackedRefs
           \/ ~IsNone(obj[bot.recovery_positions[s][i]].exit_price)
      /\ bot.averaging_count[s] <= Len(bot.recovery_positions[s])

\* C40: from the acknowledgement of an operator pause until a resume or start
\* command is processed, no new position is admitted.
C40_NoEntryWhilePaused ==
  [][(pm_ret.op = "cmd" /\ pm_ret.paused /\ pm_ret'.paused) => TrackedRefs' \subseteq TrackedRefs]_vars

====
